---- MODULE Spec2Model ----
(***************************************************************************)
(* Envelope encryption and key management of the family-vault backend.     *)
(*                                                                         *)
(* Byte strings are sequences of integers 0..255 and text strings are      *)
(* sequences of Unicode code points.  Base64 and UTF-8 are computed as the *)
(* Python standard library computes them.  AES-256-GCM and HKDF-SHA256 are *)
(* library primitives; they are modelled by a stream cipher with a keyed   *)
(* checksum as tag, and by a keyed digest, which keep the framing (nonce   *)
(* 12 bytes, tag 16 bytes, ciphertext as long as the plaintext) and the    *)
(* failure behaviour (InvalidTag) of the originals.                        *)
(***************************************************************************)
EXTENDS Integers, Sequences, FiniteSets, TLC

VARIABLES
    \* ---- pure-function harness (SpecCrypto) ----
    cr,             \* last call of the harness: operation, inputs, result
    \* ---- persisted state of the vault (Spec) ----
    users,          \* users table: user id -> row
    orgs,           \* organizations table: org id -> row
    memberships,    \* org_memberships table: set of rows
    member_keys,    \* org_member_keys table: set of rows
    persons,        \* people table: set of rows
    sessions,       \* sessions table: set of rows
    resp,           \* response of the request in progress
    tokens,         \* invitation_tokens table: set of rows
    items,          \* items table with item_field_values: item id -> row
    files,          \* file_attachments table: set of rows
    storage         \* object store: set of (key, data)

vars == <<cr, users, orgs, memberships, member_keys, persons, sessions, resp,
          tokens, items, files, storage>>

(***************************************************************************)
(* Byte-string helpers (Python slicing)                                    *)
(***************************************************************************)
Min(a, b) == IF a < b THEN a ELSE b
Max(a, b) == IF a > b THEN a ELSE b

\* s[:n]
Take(s, n) == SubSeq(s, 1, Min(n, Len(s)))
\* s[n:]
Drop(s, n) == SubSeq(s, Min(n, Len(s)) + 1, Len(s))
\* s[a:b]
Slice(s, a, b) == SubSeq(s, Min(a, Len(s)) + 1, Min(b, Len(s)))
\* s[:-n]
DropLast(s, n) == SubSeq(s, 1, Max(Len(s) - n, 0))
\* s[-n:]
TakeLast(s, n) == SubSeq(s, Max(Len(s) - n, 0) + 1, Len(s))

\* the sequence f itself, enumerated element by element
Tuple(f) == SubSeq(f, 1, Len(f))

Ok(v) == [ok |-> TRUE, val |-> v]
Err(e) == [ok |-> FALSE, val |-> e]

(***************************************************************************)
(* UTF-8 (str.encode('utf-8') / bytes.decode('utf-8')), code points below  *)
(* 65536                                                                   *)
(***************************************************************************)
IsSurrogate(c) == c >= 55296 /\ c <= 57343

Utf8EncodeChar(c) ==
    IF c < 128 THEN <<c>>
    ELSE IF c < 2048 THEN <<192 + (c \div 64), 128 + (c % 64)>>
    ELSE <<224 + (c \div 4096), 128 + ((c \div 64) % 64), 128 + (c % 64)>>

RECURSIVE Utf8EncodeFrom(_, _)
Utf8EncodeFrom(s, i) ==
    IF i > Len(s) THEN <<>>
    ELSE Utf8EncodeChar(s[i]) \o Utf8EncodeFrom(s, i + 1)

\* value.encode('utf-8'): UnicodeEncodeError on a lone surrogate
Utf8Encode(s) ==
    IF \E i \in 1..Len(s) : IsSurrogate(s[i]) THEN Err("UnicodeEncodeError")
    ELSE Ok(Utf8EncodeFrom(s, 1))

IsCont(b) == b >= 128 /\ b < 192

RECURSIVE Utf8DecodeFrom(_, _, _)
Utf8DecodeFrom(b, i, out) ==
    IF i > Len(b) THEN Ok(out)
    ELSE IF b[i] < 128 THEN Utf8DecodeFrom(b, i + 1, Append(out, b[i]))
    ELSE IF b[i] >= 194 /\ b[i] < 224 THEN
        IF i + 1 <= Len(b) /\ IsCont(b[i + 1])
        THEN Utf8DecodeFrom(b, i + 2,
                 Append(out, (b[i] - 192) * 64 + (b[i + 1] - 128)))
        ELSE Err("UnicodeDecodeError")
    ELSE IF b[i] >= 224 /\ b[i] < 240 THEN
        IF i + 2 <= Len(b) /\ IsCont(b[i + 1]) /\ IsCont(b[i + 2])
        THEN LET c == (b[i] - 224) * 4096 + (b[i + 1] - 128) * 64
                          + (b[i + 2] - 128)
             IN IF c < 2048 \/ IsSurrogate(c) THEN Err("UnicodeDecodeError")
                ELSE Utf8DecodeFrom(b, i + 3, Append(out, c))
        ELSE Err("UnicodeDecodeError")
    ELSE Err("UnicodeDecodeError")

\* plaintext_bytes.decode('utf-8')
Utf8Decode(b) == Utf8DecodeFrom(b, 1, <<>>)

(***************************************************************************)
(* Base64 (base64.b64encode / base64.b64decode with validate=False)        *)
(***************************************************************************)
B64Char(v) ==
    IF v < 26 THEN 65 + v
    ELSE IF v < 52 THEN 97 + (v - 26)
    ELSE IF v < 62 THEN 48 + (v - 52)
    ELSE IF v = 62 THEN 43 ELSE 47

\* value of a character in the base64 alphabet, -1 for any other character
B64Value(c) ==
    IF c >= 65 /\ c <= 90 THEN c - 65
    ELSE IF c >= 97 /\ c <= 122 THEN c - 97 + 26
    ELSE IF c >= 48 /\ c <= 57 THEN c - 48 + 52
    ELSE IF c = 43 THEN 62
    ELSE IF c = 47 THEN 63
    ELSE -1

\* base64.b64encode(b).decode('ascii'): the text of the encoding
B64Encode(b) ==
    LET n == Len(b)
        byte(i) == IF i <= n THEN b[i] ELSE 0
    IN Tuple([p \in 1..(4 * ((n + 2) \div 3)) |->
           LET g == 3 * ((p - 1) \div 4)
               r == (p - 1) % 4
           IN IF r = 0 THEN B64Char(byte(g + 1) \div 4)
              ELSE IF r = 1 THEN
                  B64Char((byte(g + 1) % 4) * 16 + (byte(g + 2) \div 16))
              ELSE IF r = 2 THEN
                  IF g + 2 > n THEN 61
                  ELSE B64Char((byte(g + 2) % 16) * 4 + (byte(g + 3) \div 64))
              ELSE IF g + 3 > n THEN 61 ELSE B64Char(byte(g + 3) % 64)])

\* binascii.a2b_base64, non-strict.  Characters outside the alphabet are
\* skipped.  A pad character ends the parse when it completes a quad: after
\* three data characters, or after two data characters and an earlier pad.
\* Input left in a dangling quad is an error.
IsB64Data(c) == B64Value(c) # -1

B64DecodeAscii(s) ==
    LET DataBefore(p) == Cardinality({q \in 1..(p - 1) : IsB64Data(s[q])})
        PadBefore(p) ==
            \E q \in 1..(p - 1) :
                /\ s[q] = 61
                /\ \A r \in (q + 1)..(p - 1) : ~IsB64Data(s[r])
        Ends(p) ==
            /\ s[p] = 61
            /\ \/ DataBefore(p) % 4 = 3
               \/ DataBefore(p) % 4 = 2 /\ PadBefore(p)
        stops == {p \in {q \in 1..Len(s) : s[q] = 61} : Ends(p)}
        stop == IF stops = {} THEN Len(s) + 1
                ELSE CHOOSE p \in stops : \A q \in stops : p <= q
        data == SelectSeq(SubSeq(s, 1, stop - 1), IsB64Data)
        n == Len(data)
        v(i) == B64Value(data[i])
        nbytes == 3 * (n \div 4)
                    + (IF n % 4 = 2 THEN 1 ELSE IF n % 4 = 3 THEN 2 ELSE 0)
    IN IF stops = {} /\ n % 4 # 0 THEN Err("binascii.Error")
       ELSE Ok(Tuple([t \in 1..nbytes |->
                LET g == 4 * ((t - 1) \div 3)
                    r == (t - 1) % 3
                IN IF r = 0 THEN v(g + 1) * 4 + (v(g + 2) \div 16)
                   ELSE IF r = 1 THEN (v(g + 2) % 16) * 16 + (v(g + 3) \div 4)
                   ELSE (v(g + 3) % 4) * 64 + v(g + 4)]))

\* base64.b64decode(s) of a str: ValueError unless the text is ASCII
B64Decode(s) ==
    IF \E i \in 1..Len(s) : s[i] >= 128 THEN Err("ValueError")
    ELSE B64DecodeAscii(s)

(***************************************************************************)
(* Library primitives: AES-256-GCM (cryptography AESGCM) and HKDF-SHA256   *)
(***************************************************************************)
NonceLen == 12
TagLen == 16
KeyLen == 32

\* keyed digest standing for the hash inside GHASH / HMAC: two polynomial
\* hashes modulo primes, computed by halving.  PolyHash returns the hash h of
\* b[lo..hi] and pw = base^(hi - lo + 1), both modulo p.
RECURSIVE PolyHash(_, _, _, _, _)
PolyHash(b, lo, hi, base, p) ==
    IF lo > hi THEN [h |-> 0, pw |-> 1]
    ELSE IF lo = hi THEN [h |-> (b[lo] + 1) % p, pw |-> base % p]
    ELSE LET mid == (lo + hi) \div 2
             l == PolyHash(b, lo, mid, base, p)
             r == PolyHash(b, mid + 1, hi, base, p)
         IN [h |-> (l.h * r.pw + r.h) % p, pw |-> (l.pw * r.pw) % p]

Digest(b) ==
    LET s == Tuple(b)
    IN PolyHash(s, 1, Len(s), 263, 46337).h * 46327
         + PolyHash(s, 1, Len(s), 269, 46327).h

\* CTR key stream under (key, nonce): byte i is (seed + 31 * i) % 256
KeyStreamSeed(key, nonce) == Digest(key \o nonce)

\* authentication tag over (key, nonce, ciphertext)
GcmTag(key, nonce, ct) ==
    LET h == Digest(key \o <<Len(nonce)>> \o nonce \o <<Len(ct)>> \o ct)
        b0 == h % 256
        b1 == (h \div 256) % 256
        b2 == (h \div 65536) % 256
        b3 == (h \div 16777216) % 256
    IN Tuple([j \in 1..TagLen |->
                 IF j % 4 = 0 THEN b0 ELSE IF j % 4 = 1 THEN b1
                 ELSE IF j % 4 = 2 THEN b2 ELSE b3])

\* AESGCM(key): ValueError unless the key has 128, 192 or 256 bits
AesGcmKeyOk(key) == Len(key) \in {16, 24, KeyLen}
\* nonce must be between 8 and 128 bytes
AesGcmNonceOk(nonce) == Len(nonce) >= 8 /\ Len(nonce) <= 128

\* AESGCM(key).encrypt(nonce, data, None): ciphertext with the tag appended
AesGcmEncrypt(key, nonce, data) ==
    IF ~AesGcmKeyOk(key) \/ ~AesGcmNonceOk(nonce) THEN Err("ValueError")
    ELSE LET seed == KeyStreamSeed(key, nonce)
             ct == Tuple([i \in 1..Len(data) |->
                            (data[i] + ((seed + 31 * i) % 256)) % 256])
         IN Ok(ct \o GcmTag(key, nonce, ct))

\* AESGCM(key).decrypt(nonce, data, None): InvalidTag unless the tag verifies
AesGcmDecrypt(key, nonce, data) ==
    IF ~AesGcmKeyOk(key) \/ ~AesGcmNonceOk(nonce) THEN Err("ValueError")
    ELSE IF Len(data) < TagLen THEN Err("InvalidTag")
    ELSE LET ct == DropLast(data, TagLen)
             tag == TakeLast(data, TagLen)
             seed == KeyStreamSeed(key, nonce)
         IN IF tag # GcmTag(key, nonce, ct) THEN Err("InvalidTag")
            ELSE Ok(Tuple([i \in 1..Len(ct) |->
                             (ct[i] + 256 - ((seed + 31 * i) % 256)) % 256]))

HkdfSalt == <<102, 97, 109, 105, 108, 121, 118, 97, 117, 108, 116, 45, 109, 97, 115, 116, 101, 114, 45, 107, 101, 121, 45, 115, 97, 108, 116>>
HkdfInfo == <<109, 97, 115, 116, 101, 114, 45, 101, 110, 99, 114, 121, 112, 116, 105, 111, 110, 45, 107, 101, 121>>

\* HKDF(SHA256, length=32, salt, info).derive(ikm)
\* the digest of salt, input key and info, stretched to 32 bytes
HkdfDerive(ikm) ==
    LET prk == Digest(HkdfSalt \o ikm \o HkdfInfo) IN
    Tuple([j \in 1..KeyLen |->
              ((prk \div (256 ^ (j % 4))) + 89 * j) % 256])

(***************************************************************************)
(* app/files/encryption.py                                                 *)
(***************************************************************************)
\* encrypt_file(data, org_key) with iv = os.urandom(12)
\* variant: the nonce is a constant instead of the bytes drawn
encrypt_file_zero_iv(data, org_key, iv) ==
    LET zero == Tuple([j \in 1..NonceLen |-> 0])
        r == AesGcmEncrypt(org_key, zero, data)
    IN IF ~r.ok THEN r
       ELSE Ok([ciphertext |-> DropLast(r.val, 16), iv |-> zero,
                tag |-> TakeLast(r.val, 16)])

encrypt_file(data, org_key, iv) ==
    LET r == AesGcmEncrypt(org_key, iv, data) IN
    IF ~r.ok THEN r
    ELSE Ok([ciphertext |-> DropLast(r.val, 16), iv |-> iv,
             tag |-> TakeLast(r.val, 16)])

\* variant: the key stream is removed without checking the tag
decrypt_file_unauthenticated(ciphertext, iv, tag, org_key) ==
    LET seed == KeyStreamSeed(org_key, iv)
    IN Ok(Tuple([i \in 1..Len(ciphertext) |->
                    (ciphertext[i] + 256 - ((seed + 31 * i) % 256)) % 256]))

decrypt_file(ciphertext, iv, tag, org_key) ==
    AesGcmDecrypt(org_key, iv, ciphertext \o tag)

\* variant: the tag is written behind the ciphertext instead of before it
encrypt_field_tag_last(value, org_key, iv) ==
    IF value = <<>> THEN Ok(value)
    ELSE LET value_bytes == Utf8Encode(value) IN
         IF ~value_bytes.ok THEN value_bytes
         ELSE LET r == AesGcmEncrypt(org_key, iv, value_bytes.val) IN
              IF ~r.ok THEN r
              ELSE Ok(B64Encode(iv \o r.val))

\* encrypt_field(value, org_key) with iv = os.urandom(12)
encrypt_field(value, org_key, iv) ==
    IF value = <<>> THEN Ok(value)
    ELSE LET value_bytes == Utf8Encode(value) IN
         IF ~value_bytes.ok THEN value_bytes
         ELSE LET r == AesGcmEncrypt(org_key, iv, value_bytes.val) IN
              IF ~r.ok THEN r
              ELSE LET ciphertext == DropLast(r.val, 16)
                       tag == TakeLast(r.val, 16)
                       combined == iv \o tag \o ciphertext
                   IN Ok(B64Encode(combined))

\* the body of the try block of decrypt_field
decrypt_field_try(encrypted_value, org_key) ==
    LET combined == B64Decode(encrypted_value) IN
    IF ~combined.ok THEN combined
    ELSE LET iv == Take(combined.val, 12)
             tag == Slice(combined.val, 12, 28)
             ciphertext == Drop(combined.val, 28)
             plaintext_bytes == AesGcmDecrypt(org_key, iv, ciphertext \o tag)
         IN IF ~plaintext_bytes.ok THEN plaintext_bytes
            ELSE Utf8Decode(plaintext_bytes.val)

\* variant: the except clause is missing
decrypt_field_no_fallback(encrypted_value, org_key) ==
    IF encrypted_value = <<>> THEN Ok(encrypted_value)
    ELSE decrypt_field_try(encrypted_value, org_key)

decrypt_field(encrypted_value, org_key) ==
    IF encrypted_value = <<>> THEN Ok(encrypted_value)
    ELSE LET r == decrypt_field_try(encrypted_value, org_key) IN
         IF r.ok THEN r ELSE Ok(encrypted_value)

(***************************************************************************)
(* app/orgs/service.py: master key and organization key wrapping           *)
(***************************************************************************)
\* variant: the key is derived from a constant instead of SECRET_KEY
_get_master_key_constant(secret) == HkdfDerive(<<>>)

\* _get_master_key() for settings.SECRET_KEY = secret
_get_master_key(secret) ==
    LET ikm == Utf8EncodeFrom(secret, 1) IN HkdfDerive(ikm)

\* _encrypt_org_key(org_key) with iv = os.urandom(12)
_encrypt_org_key(org_key, secret, iv) ==
    LET master_key == _get_master_key(secret)
        ciphertext == AesGcmEncrypt(master_key, iv, org_key)
    IN IF ~ciphertext.ok THEN ciphertext
       ELSE Ok(B64Encode(iv \o ciphertext.val))

_decrypt_org_key(encrypted, secret) ==
    LET master_key == _get_master_key(secret)
        raw == B64Decode(encrypted)
    IN IF ~raw.ok THEN raw
       ELSE AesGcmDecrypt(master_key, Take(raw.val, 12), Drop(raw.val, 12))

(***************************************************************************)
(* files/router.py: the cryptographic steps of a version-1 upload/download *)
(***************************************************************************)
\* variant: the uploaded bytes go to the object store as they are
upload_file_v1_unsealed(content, org_key, iv) ==
    LET e == encrypt_file(content, org_key, iv) IN
    IF ~e.ok THEN e
    ELSE Ok([stored_data |-> content \o e.val.tag,
             encryption_iv |-> B64Encode(e.val.iv),
             encryption_tag |-> B64Encode(e.val.tag)])

\* upload_file, encryption_version = 1: what goes to the object store and
\* into the attachment row
upload_file_v1(content, org_key, iv) ==
    LET e == encrypt_file(content, org_key, iv) IN
    IF ~e.ok THEN e
    ELSE Ok([stored_data |-> e.val.ciphertext \o e.val.tag,
             encryption_iv |-> B64Encode(e.val.iv),
             encryption_tag |-> B64Encode(e.val.tag)])

\* download_file, encryption_version = 1: the tag column is decoded but the
\* tag handed to decrypt_file is the one stored behind the ciphertext
download_file_v1(stored_data, encryption_iv, encryption_tag, org_key) ==
    LET iv == B64Decode(encryption_iv)
        tag == B64Decode(encryption_tag)
    IN IF ~iv.ok THEN iv
       ELSE IF ~tag.ok THEN tag
       ELSE LET ciphertext == DropLast(stored_data, 16)
                stored_tag == TakeLast(stored_data, 16)
            IN decrypt_file(ciphertext, iv.val, stored_tag, org_key)

(***************************************************************************)
(* Inputs of the pure-function harness                                     *)
(***************************************************************************)
NumKeys == 2
NumNonces == 2
NumSecrets == 2

KeyIds == 1..NumKeys
NonceIds == 1..NumNonces
SecretIds == 1..NumSecrets

\* os.urandom(32), os.urandom(12): the draws the model distinguishes
Key(k) == Tuple([j \in 1..KeyLen |-> (k * 37 + j * 11) % 256])
Nonce(n) == Tuple([j \in 1..NonceLen |-> (n * 101 + j * 7) % 256])
\* settings.SECRET_KEY: "s1", "s2", ...
Secret(i) == <<115, 48 + i>>

\* field values: "", "A", "e-acute euro", "123-45-6789"
FieldValues ==
    { <<>>, <<65>>, <<233, 8364>>,
      <<49, 50, 51, 45, 52, 53, 45, 54, 55, 56, 57>> }

\* file contents: empty, one byte, "%PDF"
FileContents == { <<>>, <<0>>, <<37, 80, 68, 70>> }

\* texts that were never produced by encrypt_field:
\* "not-valid-base64!!!", "QUJD", "QQ", "e-acute", "AAAA...A" (40 characters)
ForeignTexts ==
    { <<110, 111, 116, 45, 118, 97, 108, 105, 100, 45, 98, 97, 115, 101,
        54, 52, 33, 33, 33>>,
      <<81, 85, 74, 68>>, <<81, 81>>, <<233>>,
      Tuple([i \in 1..40 |-> 65]) }

\* a text with one character replaced, inserted or cut off
ReplaceAt(s, p, c) == [s EXCEPT ![p] = c]
InsertAt(s, p, c) == SubSeq(s, 1, p) \o <<c>> \o SubSeq(s, p + 1, Len(s))
NextB64Char(c) == IF B64Value(c) = -1 THEN 65 ELSE B64Char((B64Value(c) + 1) % 64)

TamperedTexts(s) ==
    {s}
    \cup { ReplaceAt(s, p, NextB64Char(s[p])) : p \in 1..Len(s) }
    \cup { InsertAt(s, p, 33) : p \in 0..Len(s) }
    \cup { SubSeq(s, 1, n) : n \in 0..(Len(s) - 1) }
    \cup { s \o <<81, 85, 74, 68>> }

TamperedBytes(b) ==
    {b}
    \cup { ReplaceAt(b, p, (b[p] + 1) % 256) : p \in 1..Len(b) }
    \cup { ReplaceAt(b, p, (b[p] + 128) % 256) : p \in 1..Len(b) }
    \cup { SubSeq(b, 1, n) : n \in 0..(Len(b) - 1) }
    \cup { b \o <<0>> }

(***************************************************************************)
(* Pure-function harness: each action applies one function of              *)
(* files/encryption.py or orgs/service.py to drawn inputs                  *)
(***************************************************************************)
VaultUnchanged ==
    UNCHANGED <<users, orgs, memberships, member_keys, persons, sessions, resp,
                tokens, items, files, storage>>

CallEncryptField ==
    /\ cr.op = "none"
    /\ \E v \in FieldValues, k \in KeyIds, n \in NonceIds :
        /\ cr' = [op |-> "encrypt_field", value |-> v, key |-> k, iv |-> n,
                  out |-> encrypt_field(v, Key(k), Nonce(n))]
        /\ VaultUnchanged

\* decrypt what encrypt_field returned, possibly altered, under some key
CallDecryptField ==
    /\ cr.op = "encrypt_field"
    /\ \E x \in TamperedTexts(cr.out.val), k2 \in KeyIds :
        cr' = [op |-> "decrypt_field", value |-> cr.value, key |-> cr.key,
               iv |-> cr.iv, stored |-> cr.out.val, input |-> x, dkey |-> k2,
               out |-> decrypt_field(x, Key(k2))]
    /\ VaultUnchanged

\* decrypt a text that never was a ciphertext (legacy plaintext, junk)
CallDecryptForeign ==
    /\ cr.op = "none"
    /\ \E x \in ForeignTexts \cup FieldValues, k2 \in KeyIds :
        cr' = [op |-> "decrypt_field", value |-> x, key |-> 0,
               iv |-> 0, stored |-> <<>>, input |-> x, dkey |-> k2,
               out |-> decrypt_field(x, Key(k2))]
    /\ VaultUnchanged

CallEncryptFile ==
    /\ cr.op = "none"
    /\ \E d \in FileContents, k \in KeyIds, n \in NonceIds :
        /\ cr' = [op |-> "encrypt_file", data |-> d, key |-> k, iv |-> n,
                  out |-> encrypt_file(d, Key(k), Nonce(n))]
        /\ VaultUnchanged

\* decrypt_file on the triple encrypt_file returned, one part possibly altered
CallDecryptFile ==
    /\ cr.op = "encrypt_file"
    /\ LET e == cr.out.val IN
       \E k2 \in KeyIds :
       \E t \in { <<c, e.iv, e.tag>> : c \in TamperedBytes(e.ciphertext) }
                \cup { <<e.ciphertext, i, e.tag>> :
                          i \in TamperedBytes(e.iv) \cup {Nonce(n) : n \in NonceIds} }
                \cup { <<e.ciphertext, e.iv, g>> : g \in TamperedBytes(e.tag) } :
           cr' = [op |-> "decrypt_file", data |-> cr.data, key |-> cr.key,
                  sealed |-> e, ciphertext |-> t[1], iv |-> t[2], tag |-> t[3],
                  dkey |-> k2,
                  out |-> decrypt_file(t[1], t[2], t[3], Key(k2))]
    /\ VaultUnchanged

CallUploadV1 ==
    /\ cr.op = "none"
    /\ \E d \in FileContents, k \in KeyIds, n \in NonceIds :
        /\ cr' = [op |-> "upload_v1", data |-> d, key |-> k, iv |-> n,
                  out |-> upload_file_v1(d, Key(k), Nonce(n))]
        /\ VaultUnchanged

\* download of an uploaded file whose blob or attachment row was altered
CallDownloadV1 ==
    /\ cr.op = "upload_v1"
    /\ LET u == cr.out.val IN
       \E k2 \in KeyIds :
       \E t \in { <<b, u.encryption_iv, u.encryption_tag>> :
                     b \in TamperedBytes(u.stored_data) }
                \cup { <<u.stored_data, i, u.encryption_tag>> :
                          i \in TamperedTexts(u.encryption_iv)
                                 \cup {B64Encode(Nonce(n)) : n \in NonceIds} }
                \cup { <<u.stored_data, u.encryption_iv, g>> :
                          g \in TamperedTexts(u.encryption_tag) } :
           cr' = [op |-> "download_v1", data |-> cr.data, key |-> cr.key,
                  nonce |-> cr.iv, uploaded |-> u,
                  stored_data |-> t[1], encryption_iv |-> t[2],
                  encryption_tag |-> t[3], dkey |-> k2,
                  out |-> download_file_v1(t[1], t[2], t[3], Key(k2))]
    /\ VaultUnchanged

CallWrapOrgKey ==
    /\ cr.op = "none"
    /\ \E k \in KeyIds, s \in SecretIds, n \in NonceIds :
        /\ cr' = [op |-> "wrap", key |-> k, secret |-> s, iv |-> n,
                  out |-> _encrypt_org_key(Key(k), Secret(s), Nonce(n))]
        /\ VaultUnchanged

CallUnwrapOrgKey ==
    /\ cr.op = "wrap"
    /\ \E s2 \in SecretIds :
        cr' = [op |-> "unwrap", key |-> cr.key, secret |-> cr.secret,
               wrapped |-> cr.out.val, secret2 |-> s2,
               out |-> _decrypt_org_key(cr.out.val, Secret(s2))]
    /\ VaultUnchanged

InitCrypto ==
    /\ cr = [op |-> "none"]
    /\ users = <<>>
    /\ orgs = <<>>
    /\ memberships = {}
    /\ member_keys = {}
    /\ persons = {}
    /\ sessions = {}
    /\ resp = [op |-> "idle"]
    /\ tokens = {}
    /\ items = <<>>
    /\ files = {}
    /\ storage = {}

NextCrypto ==
    \/ CallEncryptField
    \/ CallDecryptField
    \/ CallDecryptForeign
    \/ CallEncryptFile
    \/ CallDecryptFile
    \/ CallUploadV1
    \/ CallDownloadV1
    \/ CallWrapOrgKey
    \/ CallUnwrapOrgKey

SpecCrypto == InitCrypto /\ [][NextCrypto]_vars

(***************************************************************************)
(* The vault: tables, request inputs and query helpers                     *)
(***************************************************************************)
MaxUsers == 2
MaxOrgs == 2

\* Python None, kept apart from every text (code points are >= 0)
None == <<-1>>
\* truthiness of an optional text: neither None nor ""
Truthy(x) == x # None /\ x # <<>>

\* settings.SECRET_KEY
SECRET_KEY == Secret(1)

\* str.lower() and str.strip() on ASCII text
IsSpace(c) == c \in {9, 10, 11, 12, 13, 32}
Lower(s) == Tuple([i \in 1..Len(s) |-> IF s[i] \in 65..90 THEN s[i] + 32 ELSE s[i]])
Strip(s) ==
    LET keep == {i \in 1..Len(s) : ~IsSpace(s[i])} IN
    IF keep = {} THEN <<>>
    ELSE SubSeq(s, CHOOSE i \in keep : \A j \in keep : i <= j,
                   CHOOSE i \in keep : \A j \in keep : i >= j)
\* full_name.strip().split(maxsplit=1) of a stripped name
SplitName(s) ==
    LET sp == {i \in 1..Len(s) : IsSpace(s[i])} IN
    IF s = <<>> THEN <<>>
    ELSE IF sp = {} THEN <<s>>
    ELSE LET p == CHOOSE i \in sp : \A j \in sp : i <= j
         IN <<SubSeq(s, 1, p - 1), Strip(SubSeq(s, p, Len(s)))>>

\* bcrypt.hashpw(password, gensalt()): "$" followed by the password stands
\* for the salted hash
hash_password(password) == <<36>> \o password

\* default of users.kdf_iterations
DefaultKdfIterations == 600000

\* request texts: e-mail addresses "a@x", "b@x", ...; " A@X" normalises to "a@x"
Email(i) == <<96 + i, 64, 120>>
EmailInputs == { Email(i) : i \in 1..MaxUsers } \cup { <<32, 65, 64, 88>> }
\* full names "Al", "Bl", ... (" Al " for the address with blanks)
FullNameOf(email) ==
    LET e == Strip(Lower(email)) IN
    IF e = email THEN <<e[1] - 32, 108>> ELSE <<32, e[1] - 32, 108, 32>>
\* wrapped organization keys as clients send them: "wA", "wB"
BlobA == <<119, 65>>
BlobB == <<119, 66>>
Blobs == {BlobA, BlobB}
\* organization names as clients send them: " Home "
OrgNameInputs == { <<32, 72, 111, 109, 101, 32>> }
RoleInputs == {"owner", "admin", "member", "guest"}
\* path parameters: identifiers of existing rows and one that matches no row
UserIdInputs == 0..MaxUsers
OrgIdInputs == 0..MaxOrgs

\* UserCreate bodies: a legacy registration and zero-knowledge registrations
\* with, without and with an empty wrapped organization key; an absent
\* kdf_iterations is -1
UserCreateInputs ==
    { [email |-> e, password |-> <<112, 119>>, full_name |-> FullNameOf(e),
       master_password_hash |-> None, encrypted_private_key |-> None,
       public_key |-> None, encrypted_org_key |-> None,
       recovery_encrypted_private_key |-> None, kdf_iterations |-> -1]
        : e \in EmailInputs }
    \cup
    { [email |-> e, password |-> <<>>, full_name |-> FullNameOf(e),
       master_password_hash |-> <<109, 104>>,
       encrypted_private_key |-> <<101, 112>> \o Strip(Lower(e)),
       public_key |-> <<112, 107>> \o Strip(Lower(e)),
       encrypted_org_key |-> k,
       recovery_encrypted_private_key |-> <<114, 107>> \o Strip(Lower(e)),
       kdf_iterations |-> 100000]
        : e \in { Email(i) : i \in 1..MaxUsers }, k \in {None, <<>>, BlobA} }

\* no request in progress
Idle == [op |-> "idle"]

\* get_current_user: the user of a session the caller holds
Callers == { s.user_id : s \in sessions }

get_user_by_email(email) == { i \in DOMAIN users : users[i].email = email }

get_user_membership(user_id, org_id) ==
    { m \in memberships : m.user_id = user_id /\ m.org_id = org_id }

\* the organizations of a user; the query has no ORDER BY
get_user_orgs(user_id) == { m.org_id : m \in { x \in memberships : x.user_id = user_id } }

get_org_by_id(org_id) == { o \in DOMAIN orgs : o = org_id }

\* the n-th organization draws org_key = Key(n) and iv = Nonce(n) from
\* os.urandom; WrappedDraw[n] is _encrypt_org_key(org_key) for that draw
WrappedDraw ==
    Tuple([n \in 1..MaxOrgs |-> _encrypt_org_key(Key(n), SECRET_KEY, Nonce(n)).val])

\* _decrypt_org_key of each value of WrappedDraw, computed once
UnwrappedDraw ==
    Tuple([n \in 1..MaxOrgs |-> _decrypt_org_key(WrappedDraw[n], SECRET_KEY)])

get_org_encryption_key(org) ==
    LET drawn == { n \in 1..MaxOrgs : WrappedDraw[n] = org.encryption_key_enc } IN
    IF drawn # {} THEN UnwrappedDraw[CHOOSE n \in drawn : TRUE]
    ELSE _decrypt_org_key(org.encryption_key_enc, SECRET_KEY)

RoleOrder(role) ==
    CASE role = "viewer" -> 0
      [] role = "member" -> 1
      [] role = "admin" -> 2
      [] role = "owner" -> 3
      [] OTHER -> 0

VALID_ROLES == {"owner", "admin", "member", "viewer"}

\* _require_role: 0 when the membership passes, else the HTTP status raised
_require_role(membership, min_role) ==
    IF membership = {} THEN 403
    ELSE LET m == CHOOSE x \in membership : TRUE IN
         IF RoleOrder(m.role) < RoleOrder(min_role) THEN 403 ELSE 0

(***************************************************************************)
(* orgs/service.py: create_organization                                    *)
(***************************************************************************)
\* variant: the organization key is stored base64-encoded but not encrypted
create_organization_unwrapped(name, created_by) ==
    LET org_id == Len(orgs) + 1 IN
    [org |-> [name |-> name,
              encryption_key_enc |-> B64Encode(Key(org_id)),
              created_by |-> created_by],
     membership |-> [org_id |-> org_id, user_id |-> created_by, role |-> "owner"]]

\* the organization row and the owner membership that create_organization adds
create_organization(name, created_by) ==
    LET org_id == Len(orgs) + 1
        encryption_key_enc == WrappedDraw[org_id]
    IN [org |-> [name |-> name,
                 encryption_key_enc |-> encryption_key_enc,
                 created_by |-> created_by],
        membership |-> [org_id |-> org_id, user_id |-> created_by, role |-> "owner"]]

(***************************************************************************)
(* auth/router.py: register                                                *)
(***************************************************************************)
db == <<users, orgs, memberships, member_keys, persons, sessions>>

\* create_session: a fresh token for the user
create_session(user_id) == [token |-> Cardinality(sessions) + 1, user_id |-> user_id]

register(data) ==
        /\ resp = Idle
        /\ UNCHANGED <<cr, tokens, items, files, storage>>
        /\ LET email == Strip(Lower(data.email))
               existing == get_user_by_email(email)
           IN
           IF existing # {}
           THEN /\ resp' = [op |-> "error", status |-> 409]
                /\ UNCHANGED db
           ELSE /\ Len(users) < MaxUsers
                /\ Len(orgs) < MaxOrgs
                /\ LET is_zk == data.master_password_hash # None
                       auth_value == IF is_zk THEN data.master_password_hash
                                     ELSE data.password
                       user_id == Len(users) + 1
                       user == [email |-> email,
                                password_hash |-> hash_password(auth_value),
                                full_name |-> Strip(data.full_name),
                                encrypted_private_key |-> data.encrypted_private_key,
                                public_key |-> data.public_key,
                                kdf_iterations |->
                                    IF data.kdf_iterations \in {-1, 0}
                                    THEN DefaultKdfIterations
                                    ELSE data.kdf_iterations,
                                recovery_encrypted_private_key |->
                                    data.recovery_encrypted_private_key]
                       org_id == Len(orgs) + 1
                       created == create_organization(
                                      user.full_name \o <<39, 115, 32, 86, 97, 117, 108, 116>>,
                                      user_id)
                       name_parts == SplitName(Strip(user.full_name))
                       person == [id |-> Cardinality(persons) + 1,
                                  org_id |-> org_id,
                                  first_name |-> IF Len(name_parts) > 0 THEN name_parts[1]
                                                 ELSE <<85, 115, 101, 114>>,
                                  last_name |-> IF Len(name_parts) > 1 THEN name_parts[2]
                                                ELSE <<>>,
                                  email |-> user.email,
                                  can_login |-> TRUE,
                                  user_id |-> user_id]
                       session == create_session(user_id)
                   IN /\ users' = Append(users, user)
                      /\ orgs' = Append(orgs, created.org)
                      /\ memberships' = memberships \cup {created.membership}
                      /\ member_keys' =
                            IF is_zk /\ Truthy(data.encrypted_org_key)
                            THEN member_keys \cup
                                   {[seq |-> 1, org_id |-> org_id, user_id |-> user_id,
                                     encrypted_org_key |-> data.encrypted_org_key]}
                            ELSE member_keys
                      /\ persons' = persons \cup {person}
                      /\ sessions' = sessions \cup {session}
                      /\ resp' = [op |-> "register", status |-> 201,
                                  user_id |-> user_id, active_org_id |-> org_id,
                                  encrypted_private_key |-> user.encrypted_private_key,
                                  public_key |-> user.public_key,
                                  kdf_iterations |-> user.kdf_iterations,
                                  encrypted_org_key |-> data.encrypted_org_key]

(***************************************************************************)
(* orgs/router.py                                                          *)
(***************************************************************************)
create_org(user, name) ==
        /\ resp = Idle
        /\ UNCHANGED <<cr, tokens, items, files, storage>>
        /\ Len(orgs) < MaxOrgs
        /\ LET created == create_organization(Strip(name), user) IN
           /\ orgs' = Append(orgs, created.org)
           /\ memberships' = memberships \cup {created.membership}
           /\ resp' = [op |-> "create_org", status |-> 201, org_id |-> Len(orgs) + 1]
        /\ UNCHANGED <<users, member_keys, persons, sessions>>

\* variant: renaming an organization also wraps its key again
update_org_row_rewrap(org, name) ==
    [org EXCEPT !.name = name,
                !.encryption_key_enc =
                    LET k == _decrypt_org_key(org.encryption_key_enc, SECRET_KEY) IN
                    IF k.ok THEN _encrypt_org_key(k.val, SECRET_KEY, Nonce(0)).val
                    ELSE org.encryption_key_enc]

\* org.name = data.name.strip()
update_org_row(org, name) == [org EXCEPT !.name = name]

update_org(user, org_id, name) ==
        /\ resp = Idle
        /\ UNCHANGED <<cr, tokens, items, files, storage>>
        /\ LET membership == get_user_membership(user, org_id)
               denied == _require_role(membership, "admin")
           IN
           IF denied # 0
           THEN /\ resp' = [op |-> "error", status |-> denied]
                /\ UNCHANGED db
           ELSE IF get_org_by_id(org_id) = {}
           THEN /\ resp' = [op |-> "error", status |-> 404]
                /\ UNCHANGED db
           ELSE /\ orgs' = [orgs EXCEPT ![org_id] = update_org_row(@, Strip(name))]
                /\ resp' = [op |-> "update_org", status |-> 200, org_id |-> org_id]
                /\ UNCHANGED <<users, memberships, member_keys, persons, sessions>>

invite_member(user, org_id, email, role) ==
        /\ resp = Idle
        /\ UNCHANGED <<cr, tokens, items, files, storage>>
        /\ LET membership == get_user_membership(user, org_id)
               denied == _require_role(membership, "admin")
               invite_user == get_user_by_email(Strip(Lower(email)))
           IN
           IF denied # 0
           THEN /\ resp' = [op |-> "error", status |-> denied]
                /\ UNCHANGED db
           ELSE IF role \notin VALID_ROLES \/ role = "owner"
           THEN /\ resp' = [op |-> "error", status |-> 400]
                /\ UNCHANGED db
           ELSE IF invite_user = {}
           THEN /\ resp' = [op |-> "error", status |-> 404]
                /\ UNCHANGED db
           ELSE LET invitee == CHOOSE i \in invite_user : TRUE IN
                IF get_user_membership(invitee, org_id) # {}
                THEN /\ resp' = [op |-> "error", status |-> 409]
                     /\ UNCHANGED db
                ELSE /\ memberships' = memberships \cup
                            {[org_id |-> org_id, user_id |-> invitee, role |-> role]}
                     /\ resp' = [op |-> "invite_member", status |-> 201,
                                 org_id |-> org_id, user_id |-> invitee]
                     /\ UNCHANGED <<users, orgs, member_keys, persons, sessions>>

\* variant: the role of the owner may be changed like any other
update_member_role_of_owner(user, org_id, member_user_id, role) ==
        /\ resp = Idle
        /\ UNCHANGED <<cr, tokens, items, files, storage>>
        /\ LET membership == get_user_membership(user, org_id)
               denied == _require_role(membership, "admin")
               target == get_user_membership(member_user_id, org_id)
           IN
           IF denied # 0
           THEN /\ resp' = [op |-> "error", status |-> denied]
                /\ UNCHANGED db
           ELSE IF role \notin VALID_ROLES \/ role = "owner"
           THEN /\ resp' = [op |-> "error", status |-> 400]
                /\ UNCHANGED db
           ELSE IF target = {}
           THEN /\ resp' = [op |-> "error", status |-> 404]
                /\ UNCHANGED db
           ELSE LET t == CHOOSE x \in target : TRUE IN
                IF FALSE
                THEN /\ resp' = [op |-> "error", status |-> 400]
                     /\ UNCHANGED db
                ELSE /\ memberships' = (memberships \ {t}) \cup {[t EXCEPT !.role = role]}
                     /\ resp' = [op |-> "update_member_role", status |-> 200,
                                 org_id |-> org_id, user_id |-> member_user_id]
                     /\ UNCHANGED <<users, orgs, member_keys, persons, sessions>>

update_member_role(user, org_id, member_user_id, role) ==
        /\ resp = Idle
        /\ UNCHANGED <<cr, tokens, items, files, storage>>
        /\ LET membership == get_user_membership(user, org_id)
               denied == _require_role(membership, "admin")
               target == get_user_membership(member_user_id, org_id)
           IN
           IF denied # 0
           THEN /\ resp' = [op |-> "error", status |-> denied]
                /\ UNCHANGED db
           ELSE IF role \notin VALID_ROLES \/ role = "owner"
           THEN /\ resp' = [op |-> "error", status |-> 400]
                /\ UNCHANGED db
           ELSE IF target = {}
           THEN /\ resp' = [op |-> "error", status |-> 404]
                /\ UNCHANGED db
           ELSE LET t == CHOOSE x \in target : TRUE IN
                IF t.role = "owner"
                THEN /\ resp' = [op |-> "error", status |-> 400]
                     /\ UNCHANGED db
                ELSE /\ memberships' = (memberships \ {t}) \cup {[t EXCEPT !.role = role]}
                     /\ resp' = [op |-> "update_member_role", status |-> 200,
                                 org_id |-> org_id, user_id |-> member_user_id]
                     /\ UNCHANGED <<users, orgs, member_keys, persons, sessions>>

\* variant: the member-key row of the removed member is deleted with the
\* membership
remove_member_and_key(user, org_id, member_user_id) ==
        /\ resp = Idle
        /\ UNCHANGED <<cr, tokens, items, files, storage>>
        /\ LET membership == get_user_membership(user, org_id)
               denied == _require_role(membership, "admin")
               target == get_user_membership(member_user_id, org_id)
           IN
           IF denied # 0
           THEN /\ resp' = [op |-> "error", status |-> denied]
                /\ UNCHANGED db
           ELSE IF target = {}
           THEN /\ resp' = [op |-> "error", status |-> 404]
                /\ UNCHANGED db
           ELSE LET t == CHOOSE x \in target : TRUE IN
                IF t.role = "owner"
                THEN /\ resp' = [op |-> "error", status |-> 400]
                     /\ UNCHANGED db
                ELSE /\ memberships' = memberships \ {t}
                     /\ resp' = [op |-> "remove_member", status |-> 204,
                                 org_id |-> org_id, user_id |-> member_user_id]
                     /\ member_keys' = { k \in member_keys :
                                           ~(k.org_id = org_id /\ k.user_id = member_user_id) }
                     /\ UNCHANGED <<users, orgs, persons, sessions>>

remove_member(user, org_id, member_user_id) ==
        /\ resp = Idle
        /\ UNCHANGED <<cr, tokens, items, files, storage>>
        /\ LET membership == get_user_membership(user, org_id)
               denied == _require_role(membership, "admin")
               target == get_user_membership(member_user_id, org_id)
           IN
           IF denied # 0
           THEN /\ resp' = [op |-> "error", status |-> denied]
                /\ UNCHANGED db
           ELSE IF target = {}
           THEN /\ resp' = [op |-> "error", status |-> 404]
                /\ UNCHANGED db
           ELSE LET t == CHOOSE x \in target : TRUE IN
                IF t.role = "owner"
                THEN /\ resp' = [op |-> "error", status |-> 400]
                     /\ UNCHANGED db
                ELSE /\ memberships' = memberships \ {t}
                     /\ resp' = [op |-> "remove_member", status |-> 204,
                                 org_id |-> org_id, user_id |-> member_user_id]
                     /\ UNCHANGED <<users, orgs, member_keys, persons, sessions>>

(***************************************************************************)
(* auth/router.py: key ceremony                                            *)
(***************************************************************************)
\* get_active_org_id: the id of orgs[0] of get_user_orgs, whose order the
\* query leaves open; the candidates for it
get_active_org_id(user) == get_user_orgs(user)

member_key_rows(org_id, user_id) ==
    { k \in member_keys : k.org_id = org_id /\ k.user_id = user_id }

\* variant: a pair that has a row keeps its blob
upsert_member_key_keep(org_id, user_id, encrypted_org_key) ==
    LET existing == member_key_rows(org_id, user_id) IN
    IF existing # {} THEN member_keys
    ELSE member_keys \cup
           {[seq |-> 1, org_id |-> org_id, user_id |-> user_id,
             encrypted_org_key |-> encrypted_org_key]}

\* the upsert of store_org_key: the table after it
upsert_member_key(org_id, user_id, encrypted_org_key) ==
    LET existing == member_key_rows(org_id, user_id) IN
    IF existing # {}
    THEN LET e == CHOOSE k \in existing : TRUE IN
         (member_keys \ {e}) \cup {[e EXCEPT !.encrypted_org_key = encrypted_org_key]}
    ELSE member_keys \cup
           {[seq |-> Cardinality(existing) + 1, org_id |-> org_id, user_id |-> user_id,
             encrypted_org_key |-> encrypted_org_key]}

store_org_key(user, org_id, user_id, encrypted_org_key) ==
        /\ resp = Idle
        /\ UNCHANGED <<cr, users, orgs, memberships, persons, sessions,
                       tokens, items, files, storage>>
        /\ IF get_active_org_id(user) = {}
           THEN /\ resp' = [op |-> "error", status |-> 400]
                /\ UNCHANGED member_keys
           ELSE \E caller_org_id \in get_active_org_id(user) :
                IF caller_org_id # org_id
                THEN /\ resp' = [op |-> "error", status |-> 403]
                     /\ UNCHANGED member_keys
                ELSE IF user_id \notin DOMAIN users
                THEN /\ resp' = [op |-> "error", status |-> 404]
                     /\ UNCHANGED member_keys
                ELSE /\ member_keys' = upsert_member_key(org_id, user_id, encrypted_org_key)
                     /\ resp' = [op |-> "store_org_key", status |-> 201,
                                 caller |-> user, org_id |-> org_id, user_id |-> user_id,
                                 encrypted_org_key |-> encrypted_org_key]

\* variant: the lookup leaves out the caller
my_org_key_rows_any_user(org_id, user_id) == { k \in member_keys : k.org_id = org_id }

\* the rows the query of get_my_org_key selects
my_org_key_rows(org_id, user_id) == member_key_rows(org_id, user_id)

get_my_org_key(user, org_id) ==
        /\ resp = Idle
        /\ UNCHANGED <<cr, users, orgs, memberships, member_keys, persons, sessions,
                       tokens, items, files, storage>>
        /\ LET found == my_org_key_rows(org_id, user) IN
           IF found = {}
           THEN resp' = [op |-> "get_my_org_key", status |-> 404,
                         caller |-> user, org_id |-> org_id]
           ELSE \E member_key \in found :
                resp' = [op |-> "get_my_org_key", status |-> 200,
                         caller |-> user, org_id |-> org_id,
                         encrypted_org_key |-> member_key.encrypted_org_key]

\* variant: the query leaves out the filter on the public key
pending_key_members_no_filter(org_id) ==
    LET members_with_keys == { k.user_id : k \in { x \in member_keys : x.org_id = org_id } }
    IN { u \in DOMAIN users :
            /\ get_user_membership(u, org_id) # {}
            /\ u \notin members_with_keys }

\* the users the query of get_pending_key_members selects
pending_key_members(org_id) ==
    LET members_with_keys == { k.user_id : k \in { x \in member_keys : x.org_id = org_id } }
    IN { u \in DOMAIN users :
            /\ get_user_membership(u, org_id) # {}
            /\ users[u].public_key # None
            /\ u \notin members_with_keys }

get_pending_key_members(user, org_id) ==
        /\ resp = Idle
        /\ UNCHANGED <<cr, users, orgs, memberships, member_keys, persons, sessions,
                       tokens, items, files, storage>>
        /\ IF get_active_org_id(user) = {}
           THEN resp' = [op |-> "error", status |-> 400]
           ELSE \E caller_org_id \in get_active_org_id(user) :
                IF caller_org_id # org_id
                THEN resp' = [op |-> "error", status |-> 403]
                ELSE resp' = [op |-> "get_pending_key_members", status |-> 200,
                              caller |-> user, org_id |-> org_id,
                              body |-> { [user_id |-> u,
                                          email |-> users[u].email,
                                          full_name |-> users[u].full_name,
                                          public_key |-> users[u].public_key]
                                            : u \in pending_key_members(org_id) }]

(***************************************************************************)
(* The data plane: items, attachments, password and reset tokens           *)
(***************************************************************************)
MaxItems == 1
MaxFiles == 1
MaxTokens == 3
\* the vault specification issues at most this many reset tokens
MaxVaultTokens == 1

\* the category registry (categories/definitions.py is not part of the source
\* tree): the two subcategories whose fields seed_v1_data.py lists with their
\* sensitivity, one defined flat and one in groups
CATEGORIES ==
    [ids |->
        [subcategories |->
            [drivers_license |->
                [fields |->
                    << [key |-> "full_name", type |-> "text", required |-> TRUE],
                       [key |-> "license_number", type |-> "text", required |-> FALSE,
                        encrypted |-> TRUE],
                       [key |-> "state", type |-> "text", required |-> FALSE,
                        encrypted |-> FALSE],
                       [key |-> "expiration_date", type |-> "date", required |-> FALSE] >>],
             passport |->
                [field_groups |->
                    << [fields |->
                          << [key |-> "full_name", type |-> "text", required |-> TRUE] >>],
                       [fields |->
                          << [key |-> "passport_number", type |-> "text",
                              required |-> FALSE, encrypted |-> TRUE],
                             [key |-> "expiration_date", type |-> "date",
                              required |-> FALSE] >>] >>]]]]

RECURSIVE ExtendAll(_)
\* all_fields.extend(group["fields"]) over the groups
ExtendAll(groups) ==
    IF groups = <<>> THEN <<>>
    ELSE Head(groups).fields \o ExtendAll(Tail(groups))

\* variant: only the first group of a grouped definition is read
_get_all_fields_first_group(sub_def) ==
    IF "field_groups" \in DOMAIN sub_def
    THEN Head(sub_def.field_groups).fields
    ELSE sub_def.fields

_get_all_fields(sub_def) ==
    IF "field_groups" \in DOMAIN sub_def
    THEN ExtendAll(sub_def.field_groups)
    ELSE sub_def.fields

_get_encrypted_fields(sub_def) ==
    LET all == _get_all_fields(sub_def) IN
    { all[i].key : i \in { j \in 1..Len(all) :
                             IF "encrypted" \in DOMAIN all[j] THEN all[j].encrypted
                             ELSE FALSE } }

\* _get_subcategory_def: Ok(definition), or Err when the lookup returns None
_get_subcategory_def(category, subcategory) ==
    IF category \notin DOMAIN CATEGORIES THEN Err(None)
    ELSE IF subcategory \notin DOMAIN CATEGORIES[category].subcategories THEN Err(None)
    ELSE Ok(CATEGORIES[category].subcategories[subcategory])

\* _validate_category: Ok(definition), or Err(400)
_validate_category(category, subcategory) ==
    LET sub == _get_subcategory_def(category, subcategory) IN
    IF sub.ok THEN sub ELSE Err(400)

\* field_types.get(key, "text")
field_type_of(sub_def, key) ==
    LET all == _get_all_fields(sub_def)
        hits == { i \in 1..Len(all) : all[i].key = key }
    IN IF hits = {} THEN "text"
       ELSE all[CHOOSE i \in hits : \A j \in hits : j <= i].type

\* _get_org_key: Err(404) when the organization is gone
_get_org_key(org_id) ==
    IF get_org_by_id(org_id) = {} THEN Err(404)
    ELSE get_org_encryption_key(orgs[org_id])

\* the item_field_values rows written for a submitted field list: a field
\* without a value writes no row, a sensitive field goes through
\* encrypt_field with the iv drawn for its row
field_value_rows_of(sub_def, kept, stored) ==
    IF \E i \in DOMAIN stored : ~stored[i].ok THEN Err(500)
    ELSE Ok(Tuple([i \in 1..Len(kept) |->
                [field_key |-> kept[i].field_key,
                 field_value |-> stored[i].val,
                 field_type |-> field_type_of(sub_def, kept[i].field_key)]]))

field_value_rows(sub_def, fields, org_key, ivs) ==
    LET kept == SelectSeq(fields, LAMBDA f : f.field_value # None)
        encrypted_fields == _get_encrypted_fields(sub_def)
    IN field_value_rows_of(sub_def, kept,
            [i \in 1..Len(kept) |->
                IF kept[i].field_key \in encrypted_fields
                THEN encrypt_field(kept[i].field_value, org_key, ivs[i])
                ELSE Ok(kept[i].field_value)])

\* the fields of an ItemResponse
_item_to_response(item, org_key) ==
    LET sub_def == _get_subcategory_def(item.category, item.subcategory)
        encrypted_fields == IF sub_def.ok THEN _get_encrypted_fields(sub_def.val) ELSE {}
        fvs == item.field_values
    IN Tuple([i \in 1..Len(fvs) |->
            [field_key |-> fvs[i].field_key,
             field_value |->
                IF fvs[i].field_key \in encrypted_fields /\ Truthy(fvs[i].field_value)
                THEN decrypt_field(fvs[i].field_value, org_key).val
                ELSE fvs[i].field_value,
             field_type |-> fvs[i].field_type]])

\* the tables and the object store that the item handlers leave alone
ItemFrame ==
    UNCHANGED <<cr, users, orgs, memberships, member_keys, persons, sessions,
                tokens, files, storage>>

(***************************************************************************)
(* items/service.py, called for the caller's active organization           *)
(***************************************************************************)
create_item(user, data, ivs) ==
    /\ resp = Idle
    /\ ItemFrame
    /\ IF get_active_org_id(user) = {}
       THEN /\ resp' = [op |-> "error", status |-> 400]
            /\ UNCHANGED items
       ELSE \E org_id \in get_active_org_id(user) :
            \E sub_def \in {_validate_category(data.category, data.subcategory)} :
            IF ~sub_def.ok
            THEN /\ resp' = [op |-> "error", status |-> sub_def.val]
                 /\ UNCHANGED items
            ELSE \E org_key \in {_get_org_key(org_id)} :
            IF ~org_key.ok
            THEN /\ resp' = [op |-> "error", status |-> 404]
                 /\ UNCHANGED items
            ELSE /\ Len(items) < MaxItems
                 /\ \E rows \in {field_value_rows(sub_def.val, data.fields,
                                                   org_key.val, ivs)} :
                    IF ~rows.ok
                    THEN /\ resp' = [op |-> "error", status |-> 500]
                         /\ UNCHANGED items
                    ELSE \E item \in {[org_id |-> org_id,
                                        created_by |-> user,
                                        category |-> data.category,
                                        subcategory |-> data.subcategory,
                                        name |-> data.name,
                                        notes |-> data.notes,
                                        is_archived |-> FALSE,
                                        field_values |-> rows.val]} :
                         /\ items' = Append(items, item)
                         /\ resp' = [op |-> "create_item", status |-> 201,
                                     item_id |-> Len(items) + 1,
                                     fields |-> _item_to_response(item, org_key.val)]

update_item(user, item_id, data, ivs) ==
    /\ resp = Idle
    /\ ItemFrame
    /\ IF get_active_org_id(user) = {}
       THEN /\ resp' = [op |-> "error", status |-> 400]
            /\ UNCHANGED items
       ELSE \E org_id \in get_active_org_id(user) :
            IF ~(/\ item_id \in DOMAIN items
                 /\ items[item_id].org_id = org_id
                 /\ ~items[item_id].is_archived)
            THEN /\ resp' = [op |-> "error", status |-> 404]
                 /\ UNCHANGED items
            ELSE \E org_key \in {_get_org_key(org_id)} :
                 IF ~org_key.ok
                 THEN /\ resp' = [op |-> "error", status |-> 404]
                      /\ UNCHANGED items
                 ELSE \E named \in {[items[item_id] EXCEPT
                                 !.name = IF data.name # None THEN data.name ELSE @,
                                 !.notes = IF data.notes # None THEN data.notes ELSE @]},
                         sub_def \in {_get_subcategory_def(items[item_id].category,
                                                           items[item_id].subcategory)} :
                 IF data.fields.given /\ ~sub_def.ok
                 THEN /\ resp' = [op |-> "error", status |-> 400]
                      /\ UNCHANGED items
                 ELSE \E rows \in {IF data.fields.given
                                    THEN field_value_rows(sub_def.val, data.fields.val,
                                                          org_key.val, ivs)
                                    ELSE Ok(named.field_values)} :
                      IF ~rows.ok
                      THEN /\ resp' = [op |-> "error", status |-> 500]
                           /\ UNCHANGED items
                      ELSE \E updated \in {[named EXCEPT !.field_values = rows.val]} :
                           /\ items' = [items EXCEPT ![item_id] = updated]
                           /\ resp' = [op |-> "update_item", status |-> 200,
                                       item_id |-> item_id,
                                       fields |-> _item_to_response(updated, org_key.val)]

\* get_item_endpoint: archived items included
get_item(user, item_id) ==
    /\ resp = Idle
    /\ ItemFrame
    /\ UNCHANGED items
    /\ IF get_active_org_id(user) = {}
       THEN resp' = [op |-> "error", status |-> 400]
       ELSE \E org_id \in get_active_org_id(user) :
            IF ~(item_id \in DOMAIN items /\ items[item_id].org_id = org_id)
            THEN resp' = [op |-> "error", status |-> 404]
            ELSE \E org_key \in {_get_org_key(org_id)} :
                 IF ~org_key.ok
                 THEN resp' = [op |-> "error", status |-> 404]
                 ELSE resp' = [op |-> "get_item", status |-> 200,
                               item_id |-> item_id,
                               fields |-> _item_to_response(items[item_id], org_key.val)]

delete_item(user, item_id) ==
    /\ resp = Idle
    /\ ItemFrame
    /\ IF get_active_org_id(user) = {}
       THEN /\ resp' = [op |-> "error", status |-> 400]
            /\ UNCHANGED items
       ELSE \E org_id \in get_active_org_id(user) :
            IF ~(/\ item_id \in DOMAIN items
                 /\ items[item_id].org_id = org_id
                 /\ ~items[item_id].is_archived)
            THEN /\ resp' = [op |-> "error", status |-> 404]
                 /\ UNCHANGED items
            ELSE /\ items' = [items EXCEPT ![item_id].is_archived = TRUE]
                 /\ resp' = [op |-> "delete_item", status |-> 204, item_id |-> item_id]

(***************************************************************************)
(* alembic/versions/012_encrypt_sensitive_fields.py                        *)
(***************************************************************************)
\* the part of the sensitivity table of the migration for the categories of
\* this model
ENCRYPTED_FIELDS ==
    [ids |-> [drivers_license |-> {"license_number"},
              passport |-> {"passport_number"},
              social_security_card |-> {"ssn"},
              birth_certificate |-> {"certificate_number"},
              custom_id |-> {"id_number"},
              visa |-> {"visa_number"}]]

\* ENCRYPTED_FIELDS.get(category, {}).get(subcategory, set())
\* variant: every key of the category is taken as sensitive, whatever the
\* subcategory
encrypted_keys_of_any_subcategory(category, subcategory) ==
    IF category \notin DOMAIN ENCRYPTED_FIELDS THEN {}
    ELSE UNION { ENCRYPTED_FIELDS[category][sub]
                    : sub \in DOMAIN ENCRYPTED_FIELDS[category] }

encrypted_keys_of(category, subcategory) ==
    IF category \notin DOMAIN ENCRYPTED_FIELDS THEN {}
    ELSE IF subcategory \notin DOMAIN ENCRYPTED_FIELDS[category] THEN {}
    ELSE ENCRYPTED_FIELDS[category][subcategory]

\* the test of the migration for "likely already encrypted"
looks_encrypted(field_value) ==
    B64Decode(field_value).ok /\ Len(field_value) > 40

\* one item after the upgrade; the master key, the unwrapping and
\* encrypt_field of the migration are copies of the functions of the
\* application
upgrade_item(item, iv) ==
    LET encrypted_keys == encrypted_keys_of(item.category, item.subcategory)
        org_key == _get_org_key(item.org_id)
        fvs == item.field_values
    IN IF encrypted_keys = {} \/ ~org_key.ok THEN item
       ELSE [item EXCEPT !.field_values =
                Tuple([i \in 1..Len(fvs) |->
                    IF /\ fvs[i].field_key \in encrypted_keys
                       /\ Truthy(fvs[i].field_value)
                       /\ ~looks_encrypted(fvs[i].field_value)
                    THEN [fvs[i] EXCEPT
                            !.field_value = encrypt_field(@, org_key.val, iv).val]
                    ELSE fvs[i]])]

\* the migration runs while no request is in progress
\* variant: an organization key that cannot be decrypted is passed over
upgrade_raises_never(rows) == FALSE

\* the loop reaches an item with sensitive keys whose organization row holds
\* a key that _decrypt_org_key cannot decrypt: the exception leaves upgrade
upgrade_raises(rows) ==
    \E i \in 1..Len(rows) :
        /\ encrypted_keys_of(rows[i].category, rows[i].subcategory) # {}
        /\ get_org_by_id(rows[i].org_id) # {}
        /\ ~_get_org_key(rows[i].org_id).ok

\* the migration runs inside the transaction env.py opens: an exception
\* rolls every update back
upgrade_result(rows, ivs) ==
    IF upgrade_raises(rows) THEN rows
    ELSE Tuple([i \in 1..Len(rows) |-> upgrade_item(rows[i], ivs[i])])

upgrade(ivs) ==
    /\ resp = Idle
    /\ items' = upgrade_result(items, ivs)
    /\ UNCHANGED <<cr, users, orgs, memberships, member_keys, persons, sessions,
                   resp, tokens, files, storage>>

(***************************************************************************)
(* files/router.py                                                         *)
(***************************************************************************)
ALLOWED_MIME_TYPES == {"image/jpeg", "image/png", "image/webp", "image/gif",
                       "application/pdf", "application/msword",
                       "application/vnd.openxmlformats-officedocument.wordprocessingml.document"}

\* the tables that the file handlers leave alone
FileFrame ==
    UNCHANGED <<cr, users, orgs, memberships, member_keys, persons, sessions,
                tokens, items>>

\* uuid4 of a new attachment: the least id no attachment has
new_file_id == CHOOSE n \in 1..(Cardinality(files) + 1) :
                  /\ \A f \in files : f.id # n
                  /\ \A m \in 1..(n - 1) : \E f \in files : f.id = m

\* the attachments with this id whose item belongs to the organization
\* variant: the attachment is looked up by its id alone
attachment_of_any_org(file_id, org_id) ==
    { f \in files : f.id = file_id /\ f.item_id \in DOMAIN items }

attachment_in_org(file_id, org_id) ==
    { f \in files : /\ f.id = file_id
                    /\ f.item_id \in DOMAIN items
                    /\ items[f.item_id].org_id = org_id }

\* storage.upload: the object store after put_object
storage_upload(data, key) ==
    { o \in storage : o.key # key } \cup { [key |-> key, data |-> data] }

upload_file(user, item_id, content, content_type, encryption_version, iv) ==
    /\ resp = Idle
    /\ FileFrame
    /\ IF get_active_org_id(user) = {}
       THEN /\ resp' = [op |-> "error", status |-> 400]
            /\ UNCHANGED <<files, storage>>
       ELSE \E org_id \in get_active_org_id(user) :
            IF ~(/\ item_id \in DOMAIN items
                 /\ items[item_id].org_id = org_id
                 /\ ~items[item_id].is_archived)
            THEN /\ resp' = [op |-> "error", status |-> 404]
                 /\ UNCHANGED <<files, storage>>
            ELSE IF encryption_version = 1 /\ content_type \notin ALLOWED_MIME_TYPES
            THEN /\ resp' = [op |-> "error", status |-> 400]
                 /\ UNCHANGED <<files, storage>>
            ELSE Cardinality(files) < MaxFiles /\
                 \E sealed \in {IF encryption_version = 2
                                 THEN Ok([stored_data |-> content,
                                          encryption_iv |-> <<>>,
                                          encryption_tag |-> <<>>])
                                 ELSE upload_file_v1(
                                          content,
                                          get_org_encryption_key(orgs[org_id]).val,
                                          iv)} :
                 IF ~sealed.ok
                 THEN /\ resp' = [op |-> "error", status |-> 500]
                      /\ UNCHANGED <<files, storage>>
                 ELSE LET id == new_file_id
                          \* "{org.id}/{item_id}/{purpose}_{short_uuid}.{ext}.enc";
                          \* the uuid parts of distinct uploads are distinct
                          storage_key == <<org_id, item_id, id>>
                          attachment == [id |-> id,
                                         item_id |-> item_id,
                                         uploaded_by |-> user,
                                         storage_key |-> storage_key,
                                         file_size |-> Len(content),
                                         mime_type |-> content_type,
                                         encryption_iv |-> sealed.val.encryption_iv,
                                         encryption_tag |-> sealed.val.encryption_tag,
                                         encryption_version |-> encryption_version]
                      IN
                      /\ storage' = storage_upload(sealed.val.stored_data, storage_key)
                      /\ files' = files \cup {attachment}
                      /\ resp' = [op |-> "upload_file", status |-> 201,
                                  file_id |-> id,
                                  encryption_version |-> encryption_version]

download_file(user, file_id) ==
    /\ resp = Idle
    /\ FileFrame
    /\ UNCHANGED <<files, storage>>
    /\ IF get_active_org_id(user) = {}
       THEN resp' = [op |-> "error", status |-> 400]
       ELSE \E org_id \in get_active_org_id(user) :
            IF attachment_in_org(file_id, org_id) = {}
            THEN resp' = [op |-> "error", status |-> 404]
            ELSE \E attachment \in attachment_in_org(file_id, org_id) :
                 LET found == { o \in storage : o.key = attachment.storage_key } IN
                 IF found = {}
                 THEN resp' = [op |-> "error", status |-> 500]
                 ELSE \E stored \in found :
                      \E plaintext \in {IF attachment.encryption_version = 2
                                         THEN Ok(stored.data)
                                         ELSE download_file_v1(
                                                  stored.data,
                                                  attachment.encryption_iv,
                                                  attachment.encryption_tag,
                                                  get_org_encryption_key(orgs[org_id]).val)} :
                      IF ~plaintext.ok
                      THEN resp' = [op |-> "error", status |-> 500]
                      ELSE resp' = [op |-> "download_file", status |-> 200,
                                    file_id |-> file_id, content |-> plaintext.val]

delete_file(user, file_id) ==
    /\ resp = Idle
    /\ FileFrame
    /\ IF get_active_org_id(user) = {}
       THEN /\ resp' = [op |-> "error", status |-> 400]
            /\ UNCHANGED <<files, storage>>
       ELSE \E org_id \in get_active_org_id(user) :
            IF attachment_in_org(file_id, org_id) = {}
            THEN /\ resp' = [op |-> "error", status |-> 404]
                 /\ UNCHANGED <<files, storage>>
            ELSE \E attachment \in attachment_in_org(file_id, org_id) :
                 /\ storage' = { o \in storage : o.key # attachment.storage_key }
                 /\ files' = files \ {attachment}
                 /\ resp' = [op |-> "delete_file", status |-> 204, file_id |-> file_id]

(***************************************************************************)
(* auth/router.py and invitations/service.py: passwords                    *)
(***************************************************************************)
\* variant: every credential is taken for the stored one
verify_password_any(plain, hashed) == Len(hashed) > 0

\* bcrypt.checkpw
verify_password(plain, hashed) == hashed = hash_password(plain)

\* the tables that the password handlers leave alone
PasswordFrame ==
    UNCHANGED <<cr, orgs, memberships, member_keys, persons, sessions,
                items, files, storage>>

\* _invalidate_tokens(purpose, person_id=..., user_id=...): the table with
\* every unused token of the purpose and of the person or user marked used; 0
\* is an argument that is not given
\* variant: earlier tokens are left as they are
_invalidate_tokens_none(purpose, person_id, user_id) == tokens

_invalidate_tokens(purpose, person_id, user_id) ==
    { IF /\ t.purpose = purpose
         /\ ~t.used
         /\ (person_id # 0 => t.person_id = person_id)
         /\ (user_id # 0 => t.user_id = user_id)
      THEN [t EXCEPT !.used = TRUE] ELSE t : t \in tokens }

\* validate_reset_token on a token table; fresh: expires_at is still ahead
\* variant: a token that was used is still accepted
validate_reset_token_used_again(table, token_str, fresh) ==
    { t \in table : /\ t.token = token_str
                    /\ t.purpose = "password_reset"
                    /\ fresh }

validate_reset_token(table, token_str, fresh) ==
    { t \in table : /\ t.token = token_str
                    /\ t.purpose = "password_reset"
                    /\ ~t.used
                    /\ fresh }

forgot_password(email) ==
    /\ resp = Idle
    /\ PasswordFrame
    /\ UNCHANGED users
    /\ resp' = [op |-> "forgot_password", status |-> 200]
    /\ LET found == get_user_by_email(Strip(Lower(email))) IN
       IF found = {} THEN UNCHANGED tokens
       ELSE /\ Cardinality(tokens) < MaxTokens
            /\ LET user == CHOOSE u \in found : TRUE IN
               tokens' = _invalidate_tokens("password_reset", 0, user)
                            \cup { [token |-> Cardinality(tokens) + 1,
                                    email |-> users[user].email,
                                    purpose |-> "password_reset",
                                    person_id |-> 0,
                                    org_id |-> 0,
                                    user_id |-> user,
                                    used |-> FALSE] }

reset_password_endpoint(data, fresh) ==
    /\ resp = Idle
    /\ PasswordFrame
    /\ IF Len(data.password) < 8
       THEN /\ resp' = [op |-> "error", status |-> 400]
            /\ UNCHANGED <<users, tokens>>
       ELSE LET is_zk == data.master_password_hash # None
                password_for_auth == IF is_zk THEN data.master_password_hash
                                     ELSE data.password
                valid == validate_reset_token(tokens, data.token, fresh)
            IN
            IF valid = {} \/ \A t \in valid : t.user_id \notin DOMAIN users
            THEN /\ resp' = [op |-> "error", status |-> 400]
                 /\ UNCHANGED <<users, tokens>>
            ELSE LET token_obj == CHOOSE t \in valid : TRUE
                     tokens1 == (tokens \ {token_obj})
                                   \cup { [token_obj EXCEPT !.used = TRUE] }
                     users1 == [users EXCEPT ![token_obj.user_id].password_hash =
                                                hash_password(password_for_auth)]
                     \* the lookup after the token was consumed
                     again == validate_reset_token(tokens1, data.token, fresh)
                     rekeyed == { get_user_by_email(t.email) : t \in again }
                     target == UNION rekeyed
                 IN /\ tokens' = tokens1
                    /\ users' =
                         IF is_zk /\ Truthy(data.encrypted_private_key) /\ target # {}
                         THEN LET u == CHOOSE x \in target : TRUE IN
                              [users1 EXCEPT
                                 ![u].encrypted_private_key = data.encrypted_private_key,
                                 ![u].recovery_encrypted_private_key =
                                     IF Truthy(data.recovery_encrypted_private_key)
                                     THEN data.recovery_encrypted_private_key ELSE @,
                                 ![u].kdf_iterations =
                                     IF data.kdf_iterations \notin {-1, 0}
                                     THEN data.kdf_iterations ELSE @]
                         ELSE users1
                    /\ resp' = [op |-> "reset_password", status |-> 200,
                                user_id |-> token_obj.user_id]

change_password(user, data) ==
    /\ resp = Idle
    /\ PasswordFrame
    /\ UNCHANGED tokens
    /\ LET is_zk == data.current_master_password_hash # None IN
       IF is_zk
       THEN IF ~verify_password(data.current_master_password_hash,
                                users[user].password_hash)
            THEN /\ resp' = [op |-> "error", status |-> 400]
                 /\ UNCHANGED users
            ELSE IF ~Truthy(data.new_master_password_hash)
            THEN /\ resp' = [op |-> "error", status |-> 400]
                 /\ UNCHANGED users
            ELSE /\ users' = [users EXCEPT
                      ![user].password_hash =
                          hash_password(data.new_master_password_hash),
                      ![user].encrypted_private_key =
                          IF Truthy(data.new_encrypted_private_key)
                          THEN data.new_encrypted_private_key ELSE @,
                      ![user].recovery_encrypted_private_key =
                          IF Truthy(data.new_recovery_encrypted_private_key)
                          THEN data.new_recovery_encrypted_private_key ELSE @,
                      ![user].kdf_iterations =
                          IF data.new_kdf_iterations \notin {-1, 0}
                          THEN data.new_kdf_iterations ELSE @]
                 /\ resp' = [op |-> "change_password", status |-> 200, user_id |-> user]
       ELSE IF Len(data.new_password) < 8
            THEN /\ resp' = [op |-> "error", status |-> 400]
                 /\ UNCHANGED users
            ELSE IF ~verify_password(data.current_password, users[user].password_hash)
            THEN /\ resp' = [op |-> "error", status |-> 400]
                 /\ UNCHANGED users
            ELSE /\ users' = [users EXCEPT
                      ![user].password_hash = hash_password(data.new_password)]
                 /\ resp' = [op |-> "change_password", status |-> 200, user_id |-> user]

(***************************************************************************)
(* people/router.py and invitations/service.py: invitations                *)
(***************************************************************************)
MaxPersons == 3

\* the tables that the invitation handlers leave alone
InviteFrame == UNCHANGED <<cr, orgs, member_keys, items, files, storage>>

\* validate_invite_token; fresh: expires_at is still ahead
\* variant: the expiry of the token is not looked at
validate_invite_token_no_expiry(token_str, fresh) ==
    { t \in tokens : /\ t.token = token_str
                     /\ t.purpose = "invite"
                     /\ ~t.used }

validate_invite_token(token_str, fresh) ==
    { t \in tokens : /\ t.token = token_str
                     /\ t.purpose = "invite"
                     /\ ~t.used
                     /\ fresh }

\* create_invitation: the token table after the earlier unused invitations of
\* the person are marked used and the new token is added
create_invitation(person, org_id) ==
    _invalidate_tokens("invite", person.id, 0)
        \cup { [token |-> Cardinality(tokens) + 1,
                email |-> person.email,
                purpose |-> "invite",
                person_id |-> person.id,
                org_id |-> org_id,
                user_id |-> 0,
                used |-> FALSE] }

\* Person.full_name
full_name(person) == person.first_name \o <<32>> \o person.last_name

\* create_person with _maybe_send_invite. The people table has the column
\* encryption_version since revision 020; no handler modelled here reads it.
create_person(user, data) ==
    /\ resp = Idle
    /\ InviteFrame
    /\ UNCHANGED <<users, memberships, sessions>>
    /\ IF get_active_org_id(user) = {}
       THEN /\ resp' = [op |-> "error", status |-> 400]
            /\ UNCHANGED <<persons, tokens>>
       ELSE \E org_id \in get_active_org_id(user) :
            IF data.can_login /\ ~Truthy(data.email)
            THEN /\ resp' = [op |-> "error", status |-> 400]
                 /\ UNCHANGED <<persons, tokens>>
            ELSE /\ Cardinality(persons) < MaxPersons
                 /\ LET person == [id |-> Cardinality(persons) + 1,
                                   org_id |-> org_id,
                                   first_name |-> data.first_name,
                                   last_name |-> data.last_name,
                                   email |-> data.email,
                                   can_login |-> data.can_login,
                                   user_id |-> 0]
                    IN /\ persons' = persons \cup {person}
                       /\ IF ~person.can_login \/ ~Truthy(person.email)
                             \/ get_org_by_id(org_id) = {}
                          THEN UNCHANGED tokens
                          ELSE /\ Cardinality(tokens) < MaxTokens
                               /\ tokens' = create_invitation(person, org_id)
                       /\ resp' = [op |-> "create_person", status |-> 201,
                                   person_id |-> person.id, org_id |-> org_id]

resend_invite(user, person_id) ==
    /\ resp = Idle
    /\ InviteFrame
    /\ UNCHANGED <<users, memberships, persons, sessions>>
    /\ IF get_active_org_id(user) = {}
       THEN /\ resp' = [op |-> "error", status |-> 400]
            /\ UNCHANGED tokens
       ELSE \E org_id \in get_active_org_id(user) :
            LET found == { p \in persons : p.id = person_id /\ p.org_id = org_id } IN
            IF found = {}
            THEN /\ resp' = [op |-> "error", status |-> 404]
                 /\ UNCHANGED tokens
            ELSE LET person == CHOOSE p \in found : TRUE IN
                 IF ~person.can_login \/ person.user_id # 0 \/ ~Truthy(person.email)
                 THEN /\ resp' = [op |-> "error", status |-> 400]
                      /\ UNCHANGED tokens
                 ELSE /\ Cardinality(tokens) < MaxTokens
                      /\ tokens' = create_invitation(person, org_id)
                      /\ resp' = [op |-> "resend_invite", status |-> 200,
                                  person_id |-> person.id, org_id |-> org_id]

\* accept_invite_endpoint with accept_invitation
accept_invite_endpoint(data, fresh) ==
    /\ resp = Idle
    /\ InviteFrame
    /\ IF Len(data.password) < 8
       THEN /\ resp' = [op |-> "error", status |-> 400]
            /\ UNCHANGED <<users, memberships, persons, sessions, tokens>>
       ELSE LET is_zk == data.master_password_hash # None
                password_for_auth == IF is_zk THEN data.master_password_hash
                                     ELSE data.password
                valid == validate_invite_token(data.token, fresh)
            IN
            IF valid = {}
            THEN /\ resp' = [op |-> "error", status |-> 400]
                 /\ UNCHANGED <<users, memberships, persons, sessions, tokens>>
            ELSE \E invite \in valid :
                 IF \/ get_user_by_email(Strip(Lower(invite.email))) # {}
                    \/ \A p \in persons : p.id # invite.person_id
                    \/ get_org_by_id(invite.org_id) = {}
                 THEN /\ resp' = [op |-> "error", status |-> 400]
                      /\ UNCHANGED <<users, memberships, persons, sessions, tokens>>
                 ELSE /\ Len(users) < MaxUsers
                      /\ LET person == CHOOSE p \in persons : p.id = invite.person_id
                             user_id == Len(users) + 1
                             user == [email |-> Strip(Lower(invite.email)),
                                      password_hash |-> hash_password(password_for_auth),
                                      full_name |-> full_name(person),
                                      encrypted_private_key |->
                                          IF is_zk THEN data.encrypted_private_key
                                          ELSE None,
                                      public_key |->
                                          IF is_zk THEN data.public_key ELSE None,
                                      kdf_iterations |->
                                          IF is_zk /\ data.kdf_iterations \notin {-1, 0}
                                          THEN data.kdf_iterations
                                          ELSE DefaultKdfIterations,
                                      recovery_encrypted_private_key |->
                                          IF is_zk
                                          THEN data.recovery_encrypted_private_key
                                          ELSE None]
                         IN /\ users' = Append(users, user)
                            /\ persons' = (persons \ {person})
                                             \cup { [person EXCEPT !.user_id = user_id] }
                            /\ memberships' = memberships \cup
                                  { [org_id |-> invite.org_id, user_id |-> user_id,
                                     role |-> "member"] }
                            /\ tokens' = (tokens \ {invite})
                                            \cup { [invite EXCEPT !.used = TRUE] }
                            /\ sessions' = sessions \cup {create_session(user_id)}
                            /\ resp' = [op |-> "accept_invite", status |-> 200,
                                        user_id |-> user_id,
                                        active_org_id |-> invite.org_id,
                                        encrypted_private_key |-> user.encrypted_private_key,
                                        public_key |-> user.public_key,
                                        kdf_iterations |-> user.kdf_iterations]

(***************************************************************************)
(* auth/router.py: prelogin and login                                      *)
(***************************************************************************)
MaxSessions == 3

prelogin(data) ==
    /\ resp = Idle
    /\ UNCHANGED <<cr, users, orgs, memberships, member_keys, persons, sessions,
                   tokens, items, files, storage>>
    /\ LET user == get_user_by_email(Strip(Lower(data.email))) IN
       resp' = [op |-> "prelogin", status |-> 200,
                kdf_iterations |->
                    IF user # {}
                    THEN users[CHOOSE u \in user : TRUE].kdf_iterations
                    ELSE 600000,
                email |-> Strip(Lower(data.email))]

\* the member-key rows login reads for the active organization
\* variant: the member key is looked up by user alone
login_member_key_any_org(active_org_id, user) ==
    { k \in member_keys : k.user_id = user }

login_member_key(active_org_id, user) ==
    { k \in member_keys : k.org_id = active_org_id /\ k.user_id = user }

\* login; orgs[0] of get_user_orgs, a query without ORDER BY, is any of the
\* user's organizations and 0 (None) when there is none
login(data) ==
    /\ resp = Idle
    /\ UNCHANGED <<cr, users, orgs, memberships, member_keys, persons,
                   tokens, items, files, storage>>
    /\ LET found == get_user_by_email(Strip(Lower(data.email)))
           is_zk == data.master_password_hash # None
           auth_value == IF is_zk THEN data.master_password_hash ELSE data.password
       IN
       IF \A u \in found : ~verify_password(auth_value, users[u].password_hash)
       THEN /\ resp' = [op |-> "error", status |-> 401]
            /\ UNCHANGED sessions
       ELSE \E user \in found :
            /\ Cardinality(sessions) < MaxSessions
            /\ sessions' = sessions \cup {create_session(user)}
            /\ \E active_org_id \in
                     IF get_user_orgs(user) = {} THEN {0} ELSE get_user_orgs(user) :
                  resp' = [op |-> "login", status |-> 200,
                           user_id |-> user,
                           active_org_id |-> active_org_id,
                           encrypted_private_key |-> users[user].encrypted_private_key,
                           public_key |-> users[user].public_key,
                           kdf_iterations |-> users[user].kdf_iterations,
                           encrypted_org_key |->
                               IF login_member_key(active_org_id, user) = {} THEN None
                               ELSE (CHOOSE k \in login_member_key(active_org_id, user) :
                                        TRUE).encrypted_org_key]

\* the response goes out; the server takes the next request
SendResponse ==
    /\ resp # Idle
    /\ resp' = Idle
    /\ UNCHANGED <<cr, users, orgs, memberships, member_keys, persons, sessions,
                   tokens, items, files, storage>>

(***************************************************************************)
(* The vault as a state machine                                            *)
(***************************************************************************)
Init ==
    /\ cr = [op |-> "none"]
    /\ users = <<>>
    /\ orgs = <<>>
    /\ memberships = {}
    /\ member_keys = {}
    /\ persons = {}
    /\ sessions = {}
    /\ resp = Idle
    /\ tokens = {}
    /\ items = <<>>
    /\ files = {}
    /\ storage = {}

Next ==
    \/ \E data \in UserCreateInputs :
          register(data)
    \/ \E user \in Callers, name \in OrgNameInputs :
          create_org(user, name)
    \/ \E user \in Callers, org_id \in OrgIdInputs, name \in OrgNameInputs :
          update_org(user, org_id, name)
    \/ \E user \in Callers, org_id \in OrgIdInputs, email \in EmailInputs, role \in RoleInputs :
          invite_member(user, org_id, email, role)
    \/ \E user \in Callers, org_id \in OrgIdInputs, member_user_id \in UserIdInputs, role \in RoleInputs :
          update_member_role(user, org_id, member_user_id, role)
    \/ \E user \in Callers, org_id \in OrgIdInputs, member_user_id \in UserIdInputs :
          remove_member(user, org_id, member_user_id)
    \/ \E user \in Callers, org_id \in OrgIdInputs, user_id \in UserIdInputs, encrypted_org_key \in Blobs :
          store_org_key(user, org_id, user_id, encrypted_org_key)
    \/ \E user \in Callers, org_id \in OrgIdInputs :
          get_my_org_key(user, org_id)
    \/ \E user \in Callers, org_id \in OrgIdInputs :
          get_pending_key_members(user, org_id)
    \/ SendResponse

Spec == Init /\ [][Next]_vars

(***************************************************************************)
(* The vault with its data plane as a state machine                        *)
(***************************************************************************)
\* a zero-knowledge registration of "a@x" that brings its wrapped key and a
\* legacy registration of "b@x"
VaultUserCreateInputs ==
    { d \in UserCreateInputs :
        \/ d.email = Email(1) /\ d.encrypted_org_key = BlobA
        \/ d.email = Email(2) /\ d.master_password_hash = None }

\* ItemCreate bodies: a driver's license "DL" with license_number "7" and a
\* full_name without value; an unknown category
ItemCreateInputs ==
    { [category |-> "ids", subcategory |-> "drivers_license",
       name |-> <<68, 76>>, notes |-> None,
       fields |-> << [field_key |-> "license_number", field_value |-> <<55>>],
                     [field_key |-> "full_name", field_value |-> None] >>],
      [category |-> "pets", subcategory |-> "dog",
       name |-> <<68, 76>>, notes |-> None, fields |-> <<>>] }

\* ItemUpdate bodies (fields: list | None as given/val): nothing to change;
\* the field list with license_number "7"
ItemUpdateInputs ==
    { [name |-> None, notes |-> None, fields |-> [given |-> FALSE, val |-> <<>>]],
      [name |-> None, notes |-> None,
       fields |-> [given |-> TRUE,
                   val |-> << [field_key |-> "license_number",
                               field_value |-> <<55>>] >>]] }

ItemIdInputs == 1..MaxItems
FileIdInputs == 1..MaxFiles

\* os.urandom(12) of a call: every row the call encrypts gets the n-th nonce
\* (the bodies above hold one sensitive field each)
Draws(n) == [i \in 1..(MaxItems + 3) |-> Nonce(n)]

\* the new password "12345678"
NewPassword == <<49, 50, 51, 52, 53, 54, 55, 56>>

\* ChangePasswordRequest bodies: legacy with the password of the legacy
\* registration, zero-knowledge with the hash of the zero-knowledge one
ChangePasswordInputs ==
    { [current_password |-> <<112, 119>>, new_password |-> NewPassword,
       current_master_password_hash |-> None, new_master_password_hash |-> None,
       new_encrypted_private_key |-> None,
       new_recovery_encrypted_private_key |-> None, new_kdf_iterations |-> -1],
      [current_password |-> <<>>, new_password |-> <<>>,
       current_master_password_hash |-> <<109, 104>>,
       new_master_password_hash |-> <<109, 50>>,
       new_encrypted_private_key |-> <<101, 50>>,
       new_recovery_encrypted_private_key |-> None, new_kdf_iterations |-> -1] }

\* ResetPasswordRequest bodies: zero-knowledge, for every token
ResetPasswordInputs ==
    { [token |-> t, password |-> NewPassword, master_password_hash |-> <<109, 50>>,
       encrypted_private_key |-> <<101, 50>>,
       recovery_encrypted_private_key |-> None,
       kdf_iterations |-> -1] : t \in 1..MaxTokens }

\* uploads: a PDF for the server to encrypt, plain text that the server
\* refuses to encrypt, and a blob the client has encrypted
UploadInputs ==
    { [content |-> <<7>>, content_type |-> "application/pdf", encryption_version |-> 1],
      [content |-> <<7>>, content_type |-> "text/plain", encryption_version |-> 1],
      [content |-> <<7>>, content_type |-> "application/octet-stream",
       encryption_version |-> 2] }

NextVault ==
    \/ \E data \in VaultUserCreateInputs :
          register(data)
    \/ \E user \in Callers, name \in OrgNameInputs :
          create_org(user, name)
    \/ \E user \in Callers, name \in OrgNameInputs :
          update_org(user, 1, name)
    \/ \E user \in Callers, email \in EmailInputs :
          invite_member(user, 1, email, "member")
    \/ \E user \in Callers :
          update_member_role(user, 1, 2, "admin")
    \/ \E user \in Callers :
          remove_member(user, 1, 2)
    \/ \E user \in Callers :
          store_org_key(user, 1, 2, BlobB)
    \/ \E user \in Callers, data \in ItemCreateInputs :
          create_item(user, data, Draws(1))
    \/ \E user \in Callers, item_id \in ItemIdInputs, data \in ItemUpdateInputs :
          update_item(user, item_id, data, Draws(1))
    \/ \E user \in Callers, item_id \in ItemIdInputs :
          delete_item(user, item_id)
    \/ upgrade(Draws(2))
    \/ \E user \in Callers, item_id \in ItemIdInputs, file \in UploadInputs :
          upload_file(user, item_id, file.content, file.content_type,
                      file.encryption_version, Nonce(1))
    \/ \E user \in Callers, file_id \in FileIdInputs :
          download_file(user, file_id)
    \/ \E user \in Callers, file_id \in FileIdInputs :
          delete_file(user, file_id)
    \/ /\ Cardinality(tokens) < MaxVaultTokens
       /\ forgot_password(Email(1))
    \/ \E data \in ResetPasswordInputs, fresh \in BOOLEAN :
          reset_password_endpoint(data, fresh)
    \/ \E user \in Callers, data \in ChangePasswordInputs :
          change_password(user, data)
    \/ SendResponse

SpecVault == Init /\ [][NextVault]_vars

(***************************************************************************)
(* The invitation flow and the key ceremony                                *)
(***************************************************************************)
\* PersonCreate bodies: "J D" with login access and an address, and with
\* login access but no address
PersonCreateInputs ==
    { [first_name |-> <<74>>, last_name |-> <<68>>, email |-> e, can_login |-> TRUE]
        : e \in {Email(2), None} }

\* AcceptInviteRequest bodies for every token: zero-knowledge with both keys,
\* zero-knowledge without a public key, legacy, and a password that is too
\* short
AcceptInviteInputs ==
    { [token |-> t, password |-> NewPassword, master_password_hash |-> <<109, 104>>,
       encrypted_private_key |-> <<101, 112>>, public_key |-> pk,
       recovery_encrypted_private_key |-> None, kdf_iterations |-> -1]
        : t \in 1..MaxTokens, pk \in {<<112, 107>>, None} }
    \cup
    { [token |-> t, password |-> pw, master_password_hash |-> None,
       encrypted_private_key |-> None, public_key |-> None,
       recovery_encrypted_private_key |-> None, kdf_iterations |-> -1]
        : t \in 1..MaxTokens, pw \in {NewPassword, <<112, 119>>} }

\* UserCreate bodies: those of the vault and one that carries a master
\* password hash and an encrypted private key but no public key
InviteUserCreateInputs ==
    VaultUserCreateInputs
    \cup { [email |-> Email(2), password |-> <<>>, full_name |-> FullNameOf(Email(2)),
            master_password_hash |-> <<109, 104>>,
            encrypted_private_key |-> <<101, 112>>,
            public_key |-> None,
            encrypted_org_key |-> None,
            recovery_encrypted_private_key |-> None,
            kdf_iterations |-> -1] }

NextInvite ==
    \/ \E data \in InviteUserCreateInputs :
          register(data)
    \/ \E user \in Callers, name \in OrgNameInputs :
          create_org(user, name)
    \/ \E user \in Callers, data \in PersonCreateInputs :
          create_person(user, data)
    \/ \E data \in AcceptInviteInputs, fresh \in BOOLEAN :
          accept_invite_endpoint(data, fresh)
    \/ \E user \in Callers, org_id \in 1..MaxOrgs, user_id \in 1..MaxUsers, encrypted_org_key \in Blobs :
          store_org_key(user, org_id, user_id, encrypted_org_key)
    \/ \E user \in Callers, org_id \in 1..MaxOrgs :
          get_my_org_key(user, org_id)
    \/ \E user \in Callers, org_id \in 1..MaxOrgs :
          get_pending_key_members(user, org_id)
    \/ SendResponse

SpecInvite == Init /\ [][NextInvite]_vars

(***************************************************************************)
(* File attachments                                                        *)
(***************************************************************************)
\* uploads: empty, one-byte and two-byte files, as a PDF for the server to
\* encrypt, as plain text that the server refuses to encrypt, and as a blob
\* the client has encrypted
FileUploadInputs ==
    { [content |-> c, content_type |-> t.type, encryption_version |-> t.version]
        : c \in { <<>>, <<7>>, <<37, 80>> },
          t \in { [type |-> "application/pdf", version |-> 1],
                  [type |-> "text/plain", version |-> 1],
                  [type |-> "application/octet-stream", version |-> 2] } }

NextFiles ==
    \/ \E data \in VaultUserCreateInputs :
          register(data)
    \/ \E user \in Callers, data \in ItemCreateInputs :
          create_item(user, data, Draws(1))
    \/ \E user \in Callers, item_id \in ItemIdInputs :
          delete_item(user, item_id)
    \/ \E user \in Callers, item_id \in ItemIdInputs, file \in FileUploadInputs, n \in NonceIds :
          upload_file(user, item_id, file.content, file.content_type,
                      file.encryption_version, Nonce(n))
    \/ \E user \in Callers, file_id \in FileIdInputs :
          download_file(user, file_id)
    \/ \E user \in Callers, file_id \in FileIdInputs :
          delete_file(user, file_id)
    \/ SendResponse

SpecFiles == Init /\ [][NextFiles]_vars

(***************************************************************************)
(* Item fields                                                             *)
(***************************************************************************)
\* submitted field values: none, "", "7", e-acute and euro sign
SubmittedValues == { None, <<>>, <<55>>, <<233, 8364>> }

\* field lists: the sensitive key of the flat definition, the sensitive key
\* of the grouped definition and a key that is sensitive in neither
SubmittedFields ==
    { << [field_key |-> "license_number", field_value |-> v],
         [field_key |-> "passport_number", field_value |-> v],
         [field_key |-> "full_name", field_value |-> w] >>
        : v \in SubmittedValues, w \in { None, <<74>> } }

\* ItemCreate bodies for the flat and the grouped subcategory and for a
\* category that does not exist
FieldItemCreateInputs ==
    { [category |-> "ids", subcategory |-> sub, name |-> <<68, 76>>, notes |-> None,
       fields |-> fields]
        : sub \in {"drivers_license", "passport"}, fields \in SubmittedFields }
    \cup { [category |-> "pets", subcategory |-> "dog", name |-> <<68, 76>>,
            notes |-> None, fields |-> <<>>] }

\* ItemUpdate bodies: without a field list, and with each field list
FieldItemUpdateInputs ==
    { [name |-> None, notes |-> None, fields |-> [given |-> FALSE, val |-> <<>>]] }
    \cup { [name |-> None, notes |-> None, fields |-> [given |-> TRUE, val |-> fields]]
            : fields \in SubmittedFields }

\* the registration of the one user whose items are written and read
ItemsUserCreateInputs ==
    { d \in UserCreateInputs : d.email = Email(1) /\ d.master_password_hash = None }

NextItems ==
    \/ \E data \in ItemsUserCreateInputs :
          register(data)
    \/ \E user \in Callers, data \in FieldItemCreateInputs, n \in NonceIds :
          create_item(user, data, Draws(n))
    \/ \E user \in Callers, item_id \in ItemIdInputs, data \in FieldItemUpdateInputs,
          n \in NonceIds :
          update_item(user, item_id, data, Draws(n))
    \/ \E user \in Callers, item_id \in ItemIdInputs :
          get_item(user, item_id)
    \/ \E user \in Callers, item_id \in ItemIdInputs :
          delete_item(user, item_id)
    \/ SendResponse

SpecItems == Init /\ [][NextItems]_vars

(***************************************************************************)
(* Migration 012 over a dataset written before it                          *)
(***************************************************************************)
\* values of the fields before the migration: "", "7", "AB", e-acute and euro
\* sign, "123-45-6789"
PlainValues ==
    { <<>>, <<55>>, <<65, 66>>, <<233, 8364>>,
      <<49, 50, 51, 45, 52, 53, 45, 54, 55, 56, 57>> }

\* the items table before the migration: one item of a subcategory with a
\* sensitive key, its field values in plaintext
PlainDatasets ==
    { << [org_id |-> 1, created_by |-> 1, category |-> "ids", subcategory |-> sub,
          name |-> <<68, 76>>, notes |-> None, is_archived |-> FALSE,
          field_values |->
            << [field_key |-> "license_number", field_value |-> v,
                field_type |-> "text"],
               [field_key |-> "passport_number", field_value |-> w,
                field_type |-> "text"] >>] >>
        : sub \in {"drivers_license", "passport"}, v \in PlainValues, w \in PlainValues }

\* a database with one registered user, the user's organization and the
\* items written before the migration
InitMigration ==
    /\ cr = [op |-> "none"]
    /\ users = << [email |-> Email(1),
                   password_hash |-> hash_password(<<112, 119>>),
                   full_name |-> <<65, 108>>,
                   encrypted_private_key |-> None,
                   public_key |-> None,
                   kdf_iterations |-> DefaultKdfIterations,
                   recovery_encrypted_private_key |-> None] >>
    /\ orgs = << [name |-> <<65, 108, 39, 115, 32, 86, 97, 117, 108, 116>>,
                  encryption_key_enc |-> WrappedDraw[1],
                  created_by |-> 1] >>
    /\ memberships = {[org_id |-> 1, user_id |-> 1, role |-> "owner"]}
    /\ member_keys = {}
    /\ persons = {[id |-> 1, org_id |-> 1, first_name |-> <<65, 108>>,
                   last_name |-> <<>>, email |-> Email(1), can_login |-> TRUE,
                   user_id |-> 1]}
    /\ sessions = {}
    /\ resp = Idle
    /\ tokens = {}
    /\ items \in PlainDatasets
    /\ files = {}
    /\ storage = {}

NextMigration ==
    \E n \in NonceIds : upgrade(Draws(n))

SpecMigration == InitMigration /\ [][NextMigration]_vars

(***************************************************************************)
(* Registration, login and password change                                 *)
(***************************************************************************)
\* UserCreate bodies: a zero-knowledge registration of a@x with the wrapped
\* key "wA", a legacy registration of b@x, and a legacy registration of b@x
\* whose body carries a wrapped key all the same
AuthUserCreateInputs ==
    { d \in UserCreateInputs :
        \/ d.email = Email(1) /\ d.encrypted_org_key = BlobA
        \/ d.email = Email(2) /\ d.master_password_hash = None }
    \cup
    { [d EXCEPT !.encrypted_org_key = BlobB]
        : d \in { x \in UserCreateInputs :
                    x.email = Email(2) /\ x.master_password_hash = None } }

\* UserLogin bodies: a@x with the registered and with the changed master
\* password hash, b@x with the registered and with the changed password, and
\* an address nobody registers
UserLoginInputs ==
    { [email |-> Email(1), password |-> <<>>, master_password_hash |-> h]
        : h \in { <<109, 104>>, <<109, 50>> } }
    \cup
    { [email |-> Email(2), password |-> p, master_password_hash |-> None]
        : p \in { <<112, 119>>, NewPassword } }
    \cup
    { [email |-> Email(MaxUsers + 1), password |-> <<112, 119>>,
       master_password_hash |-> None] }

NextAuth ==
    \/ \E data \in AuthUserCreateInputs :
          register(data)
    \/ \E user \in Callers, name \in OrgNameInputs :
          create_org(user, name)
    \/ \E user \in Callers, org_id \in 1..MaxOrgs, user_id \in 1..MaxUsers :
          store_org_key(user, org_id, user_id, BlobB)
    \/ \E data \in UserLoginInputs :
          prelogin(data)
    \/ \E data \in UserLoginInputs :
          login(data)
    \/ \E user \in Callers, data \in ChangePasswordInputs :
          change_password(user, data)
    \/ SendResponse

SpecAuth == Init /\ [][NextAuth]_vars

(***************************************************************************)
(* The nonces of successive encryptions                                    *)
(***************************************************************************)
MaxCalls == 3

\* cr holds the encryptions made so far: the function, the key, which of
\* the values of os.urandom(12) the call drew, and the nonce that the output
\* of the call carries
InitNonces ==
    /\ cr = [op |-> "encryptions", log |-> <<>>]
    /\ users = <<>>
    /\ orgs = <<>>
    /\ memberships = {}
    /\ member_keys = {}
    /\ persons = {}
    /\ sessions = {}
    /\ resp = [op |-> "idle"]
    /\ tokens = {}
    /\ items = <<>>
    /\ files = {}
    /\ storage = {}

\* encrypt_field of a non-empty value: the output is base64(iv + tag +
\* ciphertext)
EncryptFieldCall ==
    /\ Len(cr.log) < MaxCalls
    /\ \E k \in KeyIds, n \in NonceIds :
       \E out \in {encrypt_field(<<55>>, Key(k), Nonce(n))} :
          cr' = [cr EXCEPT !.log = Append(@,
                    [fn |-> "encrypt_field", key |-> Key(k), draw |-> n,
                     nonce |-> Take(B64Decode(out.val).val, 12)])]
    /\ VaultUnchanged

\* encrypt_file: the output is (ciphertext, iv, tag)
EncryptFileCall ==
    /\ Len(cr.log) < MaxCalls
    /\ \E k \in KeyIds, n \in NonceIds :
       \E out \in {encrypt_file(<<7>>, Key(k), Nonce(n))} :
          cr' = [cr EXCEPT !.log = Append(@,
                    [fn |-> "encrypt_file", key |-> Key(k), draw |-> n,
                     nonce |-> out.val.iv])]
    /\ VaultUnchanged

\* _encrypt_org_key under the master key: the output is base64(iv +
\* ciphertext with tag)
EncryptOrgKeyCall ==
    /\ Len(cr.log) < MaxCalls
    /\ \E k \in KeyIds, n \in NonceIds :
       \E out \in {_encrypt_org_key(Key(k), SECRET_KEY, Nonce(n))} :
          cr' = [cr EXCEPT !.log = Append(@,
                    [fn |-> "_encrypt_org_key", key |-> _get_master_key(SECRET_KEY),
                     draw |-> n,
                     nonce |-> Take(B64Decode(out.val).val, 12)])]
    /\ VaultUnchanged

NextNonces ==
    \/ EncryptFieldCall
    \/ EncryptFileCall
    \/ EncryptOrgKeyCall

SpecNonces == InitNonces /\ [][NextNonces]_vars

(***************************************************************************)
(* The invitation and password-reset tokens: a zero-knowledge user         *)
(* registers, invites people, resends invitations, asks for password       *)
(* resets; invitations are accepted, passwords are reset, users log in.    *)
(***************************************************************************)
\* UserCreate bodies: the zero-knowledge registration of a@x
TokenUserCreateInputs ==
    { d \in UserCreateInputs : d.email = Email(1) /\ d.encrypted_org_key = BlobA }

\* AcceptInviteRequest bodies for every token: legacy, with a password of
\* eight characters
TokenAcceptInputs ==
    { d \in AcceptInviteInputs :
        d.master_password_hash = None /\ d.password = NewPassword }

NextTokens ==
    \/ \E data \in TokenUserCreateInputs :
          register(data)
    \/ \E user \in Callers, data \in PersonCreateInputs :
          create_person(user, data)
    \/ \E user \in Callers, person_id \in 1..MaxPersons :
          resend_invite(user, person_id)
    \/ \E data \in TokenAcceptInputs, fresh \in BOOLEAN :
          accept_invite_endpoint(data, fresh)
    \/ \E email \in {Email(1), Email(2)} :
          forgot_password(email)
    \/ \E data \in ResetPasswordInputs, fresh \in BOOLEAN :
          reset_password_endpoint(data, fresh)
    \/ \E data \in UserLoginInputs :
          login(data)
    \/ SendResponse

SpecTokens == Init /\ [][NextTokens]_vars

(***************************************************************************)
(* The migration over a batch: two items, the second one in an             *)
(* organization whose row is missing, whose key cannot be decrypted, or    *)
(* whose key is good.                                                      *)
(***************************************************************************)
\* a value of 44 digits, as a client may store in a sensitive field
LongPlainValue == Tuple([i \in 1..44 |-> 48 + (i % 10)])

\* an organization key wrapped under another SECRET_KEY than the one the
\* migration reads
ForeignWrapped == _encrypt_org_key(Key(2), Secret(2), Nonce(2)).val

BatchOrgs ==
    LET first == [name |-> <<65, 108, 39, 115, 32, 86, 97, 117, 108, 116>>,
                  encryption_key_enc |-> WrappedDraw[1],
                  created_by |-> 1]
    IN { <<first>>,
         <<first, [first EXCEPT !.encryption_key_enc = WrappedDraw[2]]>>,
         <<first, [first EXCEPT !.encryption_key_enc = ForeignWrapped]>> }

BatchDatasets ==
    { << [org_id |-> 1, created_by |-> 1, category |-> "ids", subcategory |-> sub,
          name |-> <<68, 76>>, notes |-> None, is_archived |-> FALSE,
          field_values |->
            << [field_key |-> "license_number", field_value |-> v,
                field_type |-> "text"],
               [field_key |-> "passport_number", field_value |-> w,
                field_type |-> "text"] >>],
         [org_id |-> 2, created_by |-> 1, category |-> cat, subcategory |-> "passport",
          name |-> <<80>>, notes |-> None, is_archived |-> FALSE,
          field_values |->
            << [field_key |-> "passport_number", field_value |-> <<65, 66>>,
                field_type |-> "text"] >>] >>
        : sub \in {"drivers_license", "passport"},
          v \in {<<>>, <<65, 66>>, LongPlainValue},
          w \in {<<55>>, LongPlainValue},
          cat \in {"ids", "notes"} }

InitBatch ==
    /\ cr = [op |-> "none"]
    /\ users = << [email |-> Email(1),
                   password_hash |-> hash_password(<<112, 119>>),
                   full_name |-> <<65, 108>>,
                   encrypted_private_key |-> None,
                   public_key |-> None,
                   kdf_iterations |-> DefaultKdfIterations,
                   recovery_encrypted_private_key |-> None] >>
    /\ orgs \in BatchOrgs
    /\ memberships = {[org_id |-> 1, user_id |-> 1, role |-> "owner"]}
    /\ member_keys = {}
    /\ persons = {[id |-> 1, org_id |-> 1, first_name |-> <<65, 108>>,
                   last_name |-> <<>>, email |-> Email(1), can_login |-> TRUE,
                   user_id |-> 1]}
    /\ sessions = {}
    /\ resp = Idle
    /\ tokens = {}
    /\ items \in BatchDatasets
    /\ files = {}
    /\ storage = {}

SpecBatch == InitBatch /\ [][NextMigration]_vars

(***************************************************************************)
(* app/main.py: RateLimitMiddleware.  cr holds the middleware's _hits      *)
(* dictionary (an absent key is the empty list), the clock, and for every  *)
(* client the times of the requests that were passed to the application.   *)
(***************************************************************************)
\* settings.RATE_LIMIT_PER_MINUTE, scaled down
RequestsPerMinute == 2
\* self.window, in seconds
window == 60
\* the clock advances in steps of TickSeconds up to MaxTime
TickSeconds == 30
MaxTime == 90
\* requests per client
MaxRequests == 3
ClientIps == {"10.0.0.1", "10.0.0.2"}

InitRate ==
    /\ cr = [op |-> "rate_limit",
             _hits |-> [ip \in ClientIps |-> <<>>],
             now |-> 0,
             requests |-> [ip \in ClientIps |-> 0],
             passed |-> [ip \in ClientIps |-> <<>>],
             status |-> 0]
    /\ users = <<>>
    /\ orgs = <<>>
    /\ memberships = {}
    /\ member_keys = {}
    /\ persons = {}
    /\ sessions = {}
    /\ resp = [op |-> "idle"]
    /\ tokens = {}
    /\ items = <<>>
    /\ files = {}
    /\ storage = {}

\* time.time() returns a later value
Tick ==
    /\ cr.now + TickSeconds <= MaxTime
    /\ cr' = [cr EXCEPT !.now = @ + TickSeconds]
    /\ VaultUnchanged

\* dispatch: hits is a new list; it is stored in _hits only when it is not
\* empty, and hits.append(now) reaches the stored list only in that case
dispatch(client_ip) ==
    /\ cr.requests[client_ip] < MaxRequests
    /\ LET now == cr.now
           cutoff == now - window
           hits == SelectSeq(cr._hits[client_ip], LAMBDA t : t > cutoff)
       IN IF Len(hits) >= RequestsPerMinute
          THEN cr' = [cr EXCEPT !._hits[client_ip] = hits,
                                !.requests[client_ip] = @ + 1,
                                !.status = 429]
          ELSE cr' = [cr EXCEPT !._hits[client_ip] =
                                    IF hits # <<>> THEN Append(hits, now) ELSE <<>>,
                                !.requests[client_ip] = @ + 1,
                                !.passed[client_ip] = Append(@, now),
                                !.status = 200]
    /\ VaultUnchanged

NextRate ==
    \/ Tick
    \/ \E client_ip \in ClientIps : dispatch(client_ip)

SpecRate == InitRate /\ [][NextRate]_vars

(***************************************************************************)
(* Memberships: users register, create organizations, invite registered    *)
(* users, change roles, remove members, invite people and accept           *)
(* invitations.                                                            *)
(***************************************************************************)
\* UserCreate bodies: the legacy registrations of a@x and b@x
MemberUserCreateInputs ==
    { d \in UserCreateInputs :
        d.master_password_hash = None /\ d.encrypted_org_key = None }

NextMembers ==
    \/ \E data \in MemberUserCreateInputs :
          register(data)
    \/ \E user \in Callers, name \in OrgNameInputs :
          create_org(user, name)
    \/ \E user \in Callers, org_id \in OrgIdInputs, email \in EmailInputs, role \in RoleInputs :
          invite_member(user, org_id, email, role)
    \/ \E user \in Callers, org_id \in OrgIdInputs, member_user_id \in UserIdInputs, role \in RoleInputs :
          update_member_role(user, org_id, member_user_id, role)
    \/ \E user \in Callers, org_id \in OrgIdInputs, member_user_id \in UserIdInputs :
          remove_member(user, org_id, member_user_id)
    \/ \E user \in Callers, data \in PersonCreateInputs :
          create_person(user, data)
    \/ \E data \in TokenAcceptInputs, fresh \in BOOLEAN :
          accept_invite_endpoint(data, fresh)
    \/ SendResponse

SpecMembers == Init /\ [][NextMembers]_vars

(***************************************************************************)
(* Isolation between organizations: two users with an organization each,   *)
(* a person who joins by invitation, members who are added and removed,    *)
(* and requests for the item and the attachment by every user.             *)
(***************************************************************************)
\* ItemCreate bodies: a driver's license
IsolationItemInputs == { d \in ItemCreateInputs : d.category = "ids" }

\* uploads: a file the client encrypted
IsolationUploadInputs == { f \in UploadInputs : f.encryption_version = 2 }

NextIsolation ==
    \/ \E data \in MemberUserCreateInputs :
          register(data)
    \/ \E user \in Callers, email \in EmailInputs :
          invite_member(user, 1, email, "member")
    \/ \E user \in Callers :
          remove_member(user, 1, 2)
    \/ \E user \in Callers, data \in PersonCreateInputs :
          create_person(user, data)
    \/ \E data \in TokenAcceptInputs :
          accept_invite_endpoint(data, TRUE)
    \/ \E user \in Callers, data \in IsolationItemInputs :
          create_item(user, data, Draws(1))
    \/ \E user \in Callers, item_id \in ItemIdInputs, file \in IsolationUploadInputs :
          upload_file(user, item_id, file.content, file.content_type,
                      file.encryption_version, Nonce(1))
    \/ \E user \in Callers, item_id \in ItemIdInputs :
          get_item(user, item_id)
    \/ \E user \in Callers, item_id \in ItemIdInputs :
          delete_item(user, item_id)
    \/ \E user \in Callers, file_id \in FileIdInputs :
          download_file(user, file_id)
    \/ \E user \in Callers, file_id \in FileIdInputs :
          delete_file(user, file_id)
    \/ SendResponse

SpecIsolation == Init /\ [][NextIsolation]_vars

(***************************************************************************)
(* app/auth/router.py: two store_org_key requests for the same pair run    *)
(* in two threads, each with its own database session.  cr holds, for      *)
(* each request, its body, its position in the handler and the row its     *)
(* query returned; member_keys is the committed table.                     *)
(***************************************************************************)
Requests == {1, 2}
\* a wrapped key stored before the two requests: "w0"
BlobStored == <<119, 48>>

\* UniqueConstraint("org_id", "user_id", name="uq_org_member_key"), variant:
\* the constraint is missing
uq_org_member_key_missing(table, org_id, user_id) == TRUE

\* UniqueConstraint("org_id", "user_id", name="uq_org_member_key"): the
\* table accepts a new row for the pair
uq_org_member_key(table, org_id, user_id) ==
    \A k \in table : ~(k.org_id = org_id /\ k.user_id = user_id)

InitRace ==
    /\ \E user_id \in 1..MaxUsers, b1 \in Blobs, b2 \in Blobs :
          cr = [op |-> "store_org_key",
                org_id |-> 1,
                user_id |-> user_id,
                blob |-> [r \in Requests |-> IF r = 1 THEN b1 ELSE b2],
                pc |-> [r \in Requests |-> "start"],
                existing |-> [r \in Requests |-> {}]]
    /\ users = <<>>
    /\ orgs = <<>>
    /\ memberships = {}
    /\ member_keys \in { {},
                          {[seq |-> 1, org_id |-> 1, user_id |-> 1,
                            encrypted_org_key |-> BlobStored]},
                          {[seq |-> 1, org_id |-> 1, user_id |-> 2,
                            encrypted_org_key |-> BlobA]} }
    /\ persons = {}
    /\ sessions = {}
    /\ resp = [op |-> "idle"]
    /\ tokens = {}
    /\ items = <<>>
    /\ files = {}
    /\ storage = {}

RaceFrame ==
    UNCHANGED <<users, orgs, memberships, persons, sessions, resp, tokens,
                items, files, storage>>

\* existing = db.query(OrgMemberKey).filter(...).first()
ReadExisting(r) ==
    /\ cr.pc[r] = "start"
    /\ cr' = [cr EXCEPT !.pc[r] = "read",
                        !.existing[r] = member_key_rows(cr.org_id, cr.user_id)]
    /\ UNCHANGED member_keys
    /\ RaceFrame

\* the assignment or db.add, and db.commit(): an UPDATE of the row that was
\* read when the attribute changed, or an INSERT that the unique constraint
\* rejects when the pair has a row by now
WriteAndCommit(r) ==
    /\ cr.pc[r] = "read"
    /\ IF cr.existing[r] # {}
       THEN \E e \in cr.existing[r] :
            /\ member_keys' =
                  IF e.encrypted_org_key = cr.blob[r] THEN member_keys
                  ELSE { IF k.org_id = e.org_id /\ k.user_id = e.user_id /\ k.seq = e.seq
                         THEN [k EXCEPT !.encrypted_org_key = cr.blob[r]] ELSE k
                           : k \in member_keys }
            /\ cr' = [cr EXCEPT !.pc[r] = "done"]
       ELSE IF uq_org_member_key(member_keys, cr.org_id, cr.user_id)
       THEN /\ member_keys' = member_keys \cup
                  {[seq |-> Cardinality(member_key_rows(cr.org_id, cr.user_id)) + 1,
                    org_id |-> cr.org_id, user_id |-> cr.user_id,
                    encrypted_org_key |-> cr.blob[r]]}
            /\ cr' = [cr EXCEPT !.pc[r] = "done"]
       ELSE /\ UNCHANGED member_keys
            /\ cr' = [cr EXCEPT !.pc[r] = "failed"]
    /\ RaceFrame

NextRace ==
    \/ \E r \in Requests : ReadExisting(r)
    \/ \E r \in Requests : WriteAndCommit(r)

SpecRace == InitRace /\ [][NextRace]_vars

(***************************************************************************)
(* Properties of the pure functions (checked under SpecCrypto)             *)
(***************************************************************************)
\* x is exactly what encrypt_field returns for some non-empty value under key k
IsFieldCiphertext(x, k) ==
    \E v \in FieldValues \ {<<>>}, n \in NonceIds :
        encrypt_field(v, Key(k), Nonce(n)) = Ok(x)

\* x base64-decodes to nonce || tag || ciphertext sealed under key k
DecodesToSealed(x, k) ==
    \E v \in FieldValues \ {<<>>}, n \in NonceIds :
        LET r == AesGcmEncrypt(Key(k), Nonce(n), Utf8Encode(v).val).val
        IN B64Decode(x) = Ok(Nonce(n) \o TakeLast(r, 16) \o DropLast(r, 16))

\* C1: decrypt_field(encrypt_field(v, k), k) = v for every string v, the empty
\* one included, and the stored form of a non-empty v is different from v.
C1_FieldRoundTrip ==
    /\ (cr.op = "encrypt_field" /\ cr.value # <<>>)
          => (cr.out.ok /\ cr.out.val # cr.value)
    /\ (cr.op = "decrypt_field" /\ cr.key = cr.dkey /\ cr.input = cr.stored)
          => cr.out = Ok(cr.value)

C1_Witness ==
    /\ cr.op = "decrypt_field"
    /\ cr.key = cr.dkey
    /\ cr.input = cr.stored
    /\ Len(cr.value) > 1
    /\ cr.out = Ok(cr.value)

\* C2 as stated: decrypt_field returns its input unchanged for every input
\* that is not a ciphertext produced by encrypt_field under the given key.
C2_AsStated ==
    (cr.op = "decrypt_field" /\ ~IsFieldCiphertext(cr.input, cr.dkey))
        => cr.out = Ok(cr.input)

\* C2 (amended): decrypt_field never raises, and it returns its input
\* unchanged for every input whose lenient base64 decoding fails or is not
\* nonce || tag || ciphertext sealed under the given key.
C2_Fallback ==
    cr.op = "decrypt_field"
        => /\ cr.out.ok
           /\ ~DecodesToSealed(cr.input, cr.dkey) => cr.out.val = cr.input

C2_Witness ==
    /\ cr.op = "decrypt_field"
    /\ cr.key \in KeyIds
    /\ cr.key # cr.dkey
    /\ cr.input = cr.stored
    /\ cr.input # <<>>
    /\ cr.out = Ok(cr.input)

C4_WrapUnwrap ==
    cr.op = "unwrap"
        => IF cr.secret2 = cr.secret THEN cr.out = Ok(Key(cr.key))
           ELSE ~cr.out.ok

C4_Witness ==
    /\ cr.op = "unwrap"
    /\ cr.secret2 # cr.secret
    /\ ~cr.out.ok

(***************************************************************************)
(* Properties of the vault (checked under Spec and SpecVault)              *)
(***************************************************************************)
\* t holds the byte string k as a contiguous part
Contains(t, k) ==
    \E i \in 0..(Len(t) - Len(k)) : SubSeq(t, i + 1, i + Len(k)) = k

\* every text the server has written to a table or to the object store
PersistedTexts ==
    UNION { { users[u].email, users[u].password_hash, users[u].full_name,
              users[u].encrypted_private_key, users[u].public_key,
              users[u].recovery_encrypted_private_key } : u \in DOMAIN users }
    \cup UNION { { orgs[o].name, orgs[o].encryption_key_enc } : o \in DOMAIN orgs }
    \cup { k.encrypted_org_key : k \in member_keys }
    \cup UNION { { p.first_name, p.last_name, p.email } : p \in persons }
    \cup { t.email : t \in tokens }
    \cup UNION { { items[i].name, items[i].notes } : i \in DOMAIN items }
    \cup UNION { { items[i].field_values[j].field_value :
                       j \in DOMAIN items[i].field_values } : i \in DOMAIN items }
    \cup UNION { { f.encryption_iv, f.encryption_tag } : f \in files }
    \cup { b.data : b \in storage }

\* t is the raw key k, or holds it, as bytes or base64-encoded
ExposesKey(t, k) ==
    \/ Contains(t, k)
    \/ /\ Len(t) * 3 >= Len(k) * 4
       /\ LET d == B64Decode(t) IN d.ok /\ Contains(d.val, k)

\* C5: the wrapped key of an organization is written when the organization is
\* created, as a value that unwraps to a 32-byte key, and no later step (rename,
\* invite, role change, member removal, key ceremony, item and file operation,
\* password change or reset, migration) changes it or removes the
\* organization, so that get_org_encryption_key keeps returning the same key.
C5_WrappedKeyWrittenOnce ==
    [][ /\ Len(orgs') >= Len(orgs)
        /\ \A o \in DOMAIN orgs :
              /\ orgs'[o].encryption_key_enc = orgs[o].encryption_key_enc
              /\ get_org_encryption_key(orgs'[o]) = get_org_encryption_key(orgs[o])
        /\ \A o \in (DOMAIN orgs') \ (DOMAIN orgs) :
              LET k == get_org_encryption_key(orgs'[o]) IN
              k.ok /\ Len(k.val) = KeyLen ]_vars

\* a rename of organization 1 answered after a member was given a key and the
\* admin role, an item of the organization went through the migration, a file
\* was stored, a reset token was consumed and a password was changed
C5_Witness ==
    /\ resp.op = "update_org"
    /\ resp.org_id = 1
    /\ Len(orgs) = 2
    /\ \E k \in member_keys : k.org_id = 1 /\ k.user_id = 2
    /\ \E m \in memberships : m.org_id = 1 /\ m.user_id = 2 /\ m.role = "admin"
    /\ \E i \in DOMAIN items :
          /\ items[i].org_id = 1
          /\ \E j \in DOMAIN items[i].field_values :
                Len(items[i].field_values[j].field_value) > 2 * 40
    /\ \E f \in files : f.encryption_version = 1
    /\ \E t \in tokens : t.used
    /\ users[1].password_hash = hash_password(<<109, 50>>)
    /\ get_org_encryption_key(orgs[1]) = Ok(Key(1))

\* C6: every organization row holds one wrapped-key value, which unwraps under
\* the master key to a 32-byte key, and no text the server has persisted (user,
\* organization, member-key, person, token and item rows, item field values,
\* attachment rows, stored file blobs) is that raw key or holds it, as bytes or
\* base64-encoded.
C6_KeyPersistedOnlyWrapped ==
    resp = Idle =>
        \A o \in DOMAIN orgs :
            LET k == get_org_encryption_key(orgs[o]) IN
            /\ orgs[o].encryption_key_enc # None
            /\ k.ok
            /\ Len(k.val) = KeyLen
            /\ \A t \in PersistedTexts : ~ExposesKey(t, k.val)

\* two organizations with different wrapped keys, a member-key row, an item
\* with an encrypted field value, and both kinds of stored file blob reachable:
\* here an encrypted one
C6_Witness ==
    /\ resp = Idle
    /\ Len(orgs) = 2
    /\ Len(users) = 2
    /\ member_keys # {}
    /\ orgs[1].encryption_key_enc # orgs[2].encryption_key_enc
    /\ \E i \in DOMAIN items :
          \E j \in DOMAIN items[i].field_values :
              /\ items[i].field_values[j].field_key = "license_number"
              /\ decrypt_field(items[i].field_values[j].field_value,
                               get_org_encryption_key(orgs[items[i].org_id]).val)
                     = Ok(<<55>>)
    /\ \E f \in files : f.encryption_version = 1
    /\ \E b \in storage : Len(b.data) > 16

\* at most one member-key row for each (org_id, user_id)
AtMostOneRowPerPair ==
    \A k1, k2 \in member_keys :
        (k1.org_id = k2.org_id /\ k1.user_id = k2.user_id) => k1 = k2

\* C7: the member-key table never holds two rows for one (org_id, user_id); a
\* successful store leaves exactly one row for its pair, holding the blob just
\* stored, and leaves the other rows alone; storing the blob a pair already
\* holds changes nothing; a registration adds at most the row of the new
\* owner; no other step changes the table.
C7_MemberKeyUpsert ==
    [][ /\ AtMostOneRowPerPair'
        /\ IF resp'.op = "store_org_key"
           THEN LET mine(k) == k.org_id = resp'.org_id /\ k.user_id = resp'.user_id IN
                /\ { k.encrypted_org_key : k \in { x \in member_keys' : mine(x) } }
                      = { resp'.encrypted_org_key }
                /\ { k \in member_keys' : ~mine(k) } = { k \in member_keys : ~mine(k) }
                /\ (\E k \in member_keys :
                        mine(k) /\ k.encrypted_org_key = resp'.encrypted_org_key)
                      => member_keys' = member_keys
           ELSE IF resp'.op = "register"
           THEN /\ member_keys \subseteq member_keys'
                /\ \A k \in member_keys' \ member_keys :
                      /\ k.org_id = resp'.active_org_id
                      /\ k.user_id = resp'.user_id
                      /\ k.encrypted_org_key = resp'.encrypted_org_key
           ELSE member_keys' = member_keys ]_vars

C7_Witness ==
    /\ resp.op = "store_org_key"
    /\ resp.encrypted_org_key = BlobB
    /\ \E k \in member_keys :
          /\ k.org_id = resp.org_id
          /\ k.user_id = resp.user_id
          /\ k.encrypted_org_key = BlobB
    /\ \E k \in member_keys :
          /\ k.org_id = resp.org_id
          /\ k.user_id # resp.user_id
          /\ k.encrypted_org_key = BlobA

\* C8: an admitted get_pending_key_members(O) changes no table and returns
\* exactly the users that have a membership in O, a public key, and no
\* member-key row for O, each with its own e-mail address, name and public
\* key.
C8_PendingExact ==
    [][ resp'.op = "get_pending_key_members" =>
        /\ UNCHANGED db
        /\ { p.user_id : p \in resp'.body }
              = { u \in DOMAIN users :
                    /\ \E m \in memberships : m.org_id = resp'.org_id /\ m.user_id = u
                    /\ users[u].public_key # None
                    /\ ~\E k \in member_keys : k.org_id = resp'.org_id /\ k.user_id = u }
        /\ \A p \in resp'.body :
              /\ p.email = users[p.user_id].email
              /\ p.full_name = users[p.user_id].full_name
              /\ p.public_key = users[p.user_id].public_key ]_vars

C8_Witness ==
    /\ resp.op = "get_pending_key_members"
    /\ Cardinality(resp.body) = 1
    /\ \E m \in memberships :
          /\ m.org_id = resp.org_id
          /\ \/ users[m.user_id].public_key = None
             \/ \E k \in member_keys : k.org_id = resp.org_id /\ k.user_id = m.user_id

\* C9 as stated: a store succeeds only when the caller and the target user are
\* both members of org_id.
C9_AsStated ==
    [][ resp'.op = "store_org_key" =>
        /\ \E m \in memberships : m.org_id = resp'.org_id /\ m.user_id = resp'.caller
        /\ \E m \in memberships : m.org_id = resp'.org_id /\ m.user_id = resp'.user_id ]_vars

\* C10: get_my_org_key(org_id) of user u changes no table; it answers with the
\* blob of the row (org_id, u) when there is one and with 404 when there is
\* none.
C10_OwnKeyOrNotFound ==
    [][ resp'.op = "get_my_org_key" =>
        /\ UNCHANGED db
        /\ LET own == { k \in member_keys :
                          k.org_id = resp'.org_id /\ k.user_id = resp'.caller }
           IN IF own = {} THEN resp'.status = 404
              ELSE /\ resp'.status = 200
                   /\ resp'.encrypted_org_key \in { k.encrypted_org_key : k \in own } ]_vars

C10_Witness ==
    /\ resp.op = "get_my_org_key"
    /\ resp.status = 200
    /\ \E k \in member_keys :
          /\ k.org_id = resp.org_id
          /\ k.user_id # resp.caller
          /\ k.encrypted_org_key # resp.encrypted_org_key


(***************************************************************************)
(* Properties of the invitation flow (checked under SpecInvite)            *)
(***************************************************************************)
\* user u joined organization o by accepting an invitation
joined_by_invitation(u, o) ==
    \E t \in tokens :
        /\ t.purpose = "invite"
        /\ t.used
        /\ t.org_id = o
        /\ \E p \in persons : p.id = t.person_id /\ p.user_id = u

\* C11 as stated: every store_org_key call of a member of organization o for a
\* user u who joined o by accepting an invitation succeeds, leaves the row
\* (o, u) with the blob and u not pending for o; and get_my_org_key(o) of a
\* user answers with the blob of the user's row.
C11_AsStated ==
    [][ /\ \A caller \in DOMAIN users, u \in DOMAIN users, o \in DOMAIN orgs, b \in Blobs :
              ( /\ caller \in Callers
                /\ get_user_membership(caller, o) # {}
                /\ joined_by_invitation(u, o)
                /\ store_org_key(caller, o, u, b) )
              => /\ resp'.op = "store_org_key"
                 /\ resp'.status = 201
                 /\ { k.encrypted_org_key : k \in { x \in member_keys' :
                                                      x.org_id = o /\ x.user_id = u } } = {b}
                 /\ u \notin pending_key_members(o)'
        /\ resp'.op = "get_my_org_key" /\ resp'.status = 200
              => \E k \in member_keys :
                    /\ k.org_id = resp'.org_id
                    /\ k.user_id = resp'.caller
                    /\ k.encrypted_org_key = resp'.encrypted_org_key ]_vars


\* C12 as stated: every user has both encrypted_private_key and public_key or
\* neither of them.
C12_AsStated ==
    \A u \in DOMAIN users :
        (users[u].encrypted_private_key = None) <=> (users[u].public_key = None)


(***************************************************************************)
(* Properties of the attachments (checked under SpecFiles)                 *)
(***************************************************************************)
\* the stored object of an attachment
blob_of(store, attachment) == { o \in store : o.key = attachment.storage_key }

\* the organization key of the item an attachment belongs to
file_org_key(attachment) ==
    get_org_encryption_key(orgs[items[attachment.item_id].org_id]).val

\* data is what encrypt_file gives for content under key and some nonce,
\* ciphertext and tag joined, with iv_b64 and tag_b64 the base64 texts of the
\* nonce and the tag
IsEncryptFileOutput(data, iv_b64, tag_b64, content, key) ==
    \E n \in NonceIds :
        LET e == encrypt_file(content, key, Nonce(n)) IN
        /\ e.ok
        /\ data = e.val.ciphertext \o e.val.tag
        /\ iv_b64 = B64Encode(e.val.iv)
        /\ tag_b64 = B64Encode(e.val.tag)

\* C13: an upload with encryption_version = 2 puts exactly the uploaded bytes
\* into the object store and a download returns exactly the stored bytes; an
\* upload with encryption_version = 1 puts the encrypt_file output under the
\* organization key into the object store and a download returns the bytes
\* whose encrypt_file output is stored; between upload and download no step
\* changes the row or the stored object of an attachment that remains.
C13_FileRoundTrip ==
    [][ /\ \A user \in Callers, item_id \in ItemIdInputs, file \in FileUploadInputs,
              n \in NonceIds :
              ( /\ upload_file(user, item_id, file.content, file.content_type,
                               file.encryption_version, Nonce(n))
                /\ resp'.op = "upload_file" )
              => \E f \in files' \ files :
                    /\ files' = files \cup {f}
                    /\ f.id = resp'.file_id
                    /\ f.encryption_version = file.encryption_version
                    /\ \E o \in storage' \ storage :
                          /\ storage' = storage \cup {o}
                          /\ o.key = f.storage_key
                          /\ IF file.encryption_version = 2
                             THEN o.data = file.content
                             ELSE /\ IsEncryptFileOutput(o.data, f.encryption_iv,
                                                         f.encryption_tag, file.content,
                                                         file_org_key(f)')
                                  /\ file.content # <<>> => o.data # file.content
        /\ resp'.op = "download_file"
              => \E f \in files :
                    /\ f.id = resp'.file_id
                    /\ \E o \in blob_of(storage, f) :
                          IF f.encryption_version = 2
                          THEN resp'.content = o.data
                          ELSE IsEncryptFileOutput(o.data, f.encryption_iv,
                                                   f.encryption_tag, resp'.content,
                                                   file_org_key(f))
        /\ \A f \in files \cap files' :
              /\ blob_of(storage', f) = blob_of(storage, f)
              /\ blob_of(storage, f) # {}
              /\ file_org_key(f)' = file_org_key(f) ]_vars

\* a download that returned the bytes of a file the server had encrypted
C13_Witness ==
    /\ resp.op = "download_file"
    /\ resp.status = 200
    /\ resp.content = <<37, 80>>
    /\ \E f \in files :
          /\ f.id = resp.file_id
          /\ f.encryption_version = 1
          /\ \E o \in blob_of(storage, f) : Len(o.data) = 2 + TagLen


(***************************************************************************)
(* Properties of the item fields (checked under SpecItems)                 *)
(***************************************************************************)
\* the keys marked encrypted anywhere in the definition of a subcategory,
\* whether it lists its fields flat or in groups
SensitiveKeys(category, subcategory) ==
    LET sub_def == CATEGORIES[category].subcategories[subcategory]
        lists == IF "field_groups" \in DOMAIN sub_def
                 THEN { sub_def.field_groups[g].fields : g \in DOMAIN sub_def.field_groups }
                 ELSE { sub_def.fields }
    IN UNION { { l[i].key : i \in { j \in DOMAIN l : /\ "encrypted" \in DOMAIN l[j]
                                                      /\ l[j].encrypted } }
               : l \in lists }

\* the stored rows of an item hold the submitted fields that have a value,
\* the sensitive ones as encrypt_field gives them under the organization key
\* and the n-th nonce, the others as submitted
StoredAsSubmitted(item, fields, n) ==
    LET kept == SelectSeq(fields, LAMBDA f : f.field_value # None)
        key == get_org_encryption_key(orgs[item.org_id]).val
        rows == item.field_values
    IN /\ Len(rows) = Len(kept)
       /\ \A i \in DOMAIN kept :
            /\ rows[i].field_key = kept[i].field_key
            /\ IF kept[i].field_key \in SensitiveKeys(item.category, item.subcategory)
               THEN /\ rows[i].field_value
                         = encrypt_field(kept[i].field_value, key, Nonce(n)).val
                    /\ kept[i].field_value # <<>>
                         => rows[i].field_value # kept[i].field_value
               ELSE rows[i].field_value = kept[i].field_value

\* the fields of a response are the submitted fields that have a value
ReturnedAsSubmitted(returned, fields) ==
    LET kept == SelectSeq(fields, LAMBDA f : f.field_value # None) IN
    /\ Len(returned) = Len(kept)
    /\ \A i \in DOMAIN kept :
         /\ returned[i].field_key = kept[i].field_key
         /\ returned[i].field_value = kept[i].field_value

\* the fields of a response are what the stored rows of the item were
\* written from
ReturnedAsStored(returned, item) ==
    LET key == get_org_encryption_key(orgs[item.org_id]).val
        rows == item.field_values
    IN /\ Len(returned) = Len(rows)
       /\ \A i \in DOMAIN rows :
            /\ returned[i].field_key = rows[i].field_key
            /\ IF rows[i].field_key \in SensitiveKeys(item.category, item.subcategory)
               THEN \E n \in NonceIds :
                      rows[i].field_value
                        = encrypt_field(returned[i].field_value, key, Nonce(n)).val
               ELSE returned[i].field_value = rows[i].field_value

\* C14: create_item and update_item store a submitted value through
\* encrypt_field exactly when its key is sensitive in the item's subcategory,
\* flat or grouped, and as submitted otherwise; their responses and every
\* later read return the values as they were submitted, the stored rows
\* changing only by an update of the field list.
C14_FieldRouting ==
    [][ /\ \A user \in Callers, data \in FieldItemCreateInputs, n \in NonceIds :
              ( /\ resp'.op = "create_item"
                /\ create_item(user, data, Draws(n)) )
              => /\ StoredAsSubmitted(items'[resp'.item_id], data.fields, n)
                 /\ ReturnedAsSubmitted(resp'.fields, data.fields)
        /\ \A user \in Callers, item_id \in ItemIdInputs,
              data \in FieldItemUpdateInputs, n \in NonceIds :
              ( /\ resp'.op = "update_item"
                /\ data.fields.given
                /\ update_item(user, item_id, data, Draws(n)) )
              => /\ StoredAsSubmitted(items'[item_id], data.fields.val, n)
                 /\ ReturnedAsSubmitted(resp'.fields, data.fields.val)
        /\ resp'.op \in {"get_item", "update_item"}
              => ReturnedAsStored(resp'.fields, items'[resp'.item_id])
        /\ \A i \in DOMAIN items :
              /\ i \in DOMAIN items'
              /\ get_org_encryption_key(orgs'[items'[i].org_id])
                    = get_org_encryption_key(orgs[items[i].org_id])
              /\ items'[i].field_values # items[i].field_values
                    => /\ resp'.op = "update_item"
                       /\ resp'.item_id = i ]_vars

\* a read of a passport item returned the passport number as submitted while
\* the stored row holds its ciphertext, next to a name stored as submitted
C14_Witness ==
    /\ resp.op = "get_item"
    /\ resp.status = 200
    /\ \E i \in DOMAIN items :
          /\ i = resp.item_id
          /\ items[i].subcategory = "passport"
          /\ \E r \in DOMAIN items[i].field_values :
                /\ items[i].field_values[r].field_key = "passport_number"
                /\ resp.fields[r].field_value = <<233, 8364>>
                /\ Len(items[i].field_values[r].field_value) > Len(<<233, 8364>>)
          /\ \E r \in DOMAIN items[i].field_values :
                /\ items[i].field_values[r].field_key = "full_name"
                /\ items[i].field_values[r].field_value = <<74>>
                /\ resp.fields[r].field_value = <<74>>


(***************************************************************************)
(* Properties of the migration (checked under SpecMigration)               *)
(***************************************************************************)
\* the items table after one more run of the upgrade with the n-th nonce
upgraded_again(rows, n) ==
    Tuple([i \in 1..Len(rows) |-> upgrade_item(rows[i], Draws(n)[i])])

\* C15 as stated: after a run of the upgrade, a second run leaves every field
\* value exactly as the first run left it.
C15_AsStated ==
    [][ \A n \in NonceIds :
            upgrade(Draws(n)) => \A m \in NonceIds : upgraded_again(items', m) = items' ]_vars


(***************************************************************************)
(* Properties of registration and login (checked under SpecAuth)           *)
(***************************************************************************)
\* the user registered with a master password hash
registered_zk(data) == data.master_password_hash # None

unused_invites(token_str) ==
    { t \in tokens : t.token = token_str /\ t.purpose = "invite" /\ ~t.used }

\* the members of org_id that have a public key and no member-key row
awaiting_key(org_id) ==
    { u \in DOMAIN users :
        /\ \E m \in memberships : m.org_id = org_id /\ m.user_id = u
        /\ users[u].public_key # None
        /\ \A k \in member_keys : ~(k.org_id = org_id /\ k.user_id = u) }

Credentials == { <<112, 119>>, NewPassword, <<109, 104>>, <<109, 50>> }

\* the credential a request presents: the master password hash when it has
\* one, the password otherwise
presented(master_password_hash, password) ==
    IF master_password_hash # None THEN master_password_hash ELSE password

\* exactly the credential c is stored for the user row
stores_only(row, c) ==
    \A x \in Credentials : (row.password_hash = hash_password(x)) <=> (x = c)

\* C18: change_password succeeds only with the current credential and then
\* stores the new credential and, in zero-knowledge mode, the supplied
\* encrypted_private_key; with a wrong current credential it answers 400 and
\* leaves the user as it was; a login succeeds exactly with the stored
\* credential, answers 401 otherwise, and returns the stored
\* encrypted_private_key; only a successful change_password changes what is
\* stored.
C18_ChangePassword ==
    [][ /\ \A user \in Callers, data \in ChangePasswordInputs :
              change_password(user, data)
              => LET current == presented(data.current_master_password_hash,
                                          data.current_password)
                     new == IF data.current_master_password_hash # None
                            THEN data.new_master_password_hash
                            ELSE data.new_password
                 IN IF resp'.op = "change_password"
                    THEN /\ stores_only(users[user], current)
                         /\ stores_only(users'[user], new)
                         /\ data.current_master_password_hash # None
                               => users'[user].encrypted_private_key
                                    = data.new_encrypted_private_key
                         /\ \A u \in DOMAIN users : u # user => users'[u] = users[u]
                    ELSE /\ resp' = [op |-> "error", status |-> 400]
                         /\ users' = users
                         /\ ~stores_only(users[user], current)
        /\ \A data \in UserLoginInputs :
              login(data)
              => LET c == presented(data.master_password_hash, data.password)
                     found == { u \in DOMAIN users : users[u].email = data.email }
                 IN IF \E u \in found : stores_only(users[u], c)
                    THEN /\ resp'.op = "login"
                         /\ resp'.user_id \in found
                         /\ resp'.encrypted_private_key
                               = users[resp'.user_id].encrypted_private_key
                    ELSE resp' = [op |-> "error", status |-> 401]
        /\ \A u \in DOMAIN users :
              users'[u] # users[u]
              => resp'.op = "change_password" /\ resp'.user_id = u ]_vars

\* after a password change a@x logged in with the new master password hash
\* and got the new encrypted private key
C18_Witness ==
    /\ resp.op = "login"
    /\ users[resp.user_id].email = Email(1)
    /\ stores_only(users[resp.user_id], <<109, 50>>)
    /\ resp.encrypted_private_key = <<101, 50>>


(***************************************************************************)
(* Properties of prelogin (checked under SpecAuth)                         *)
(***************************************************************************)
\* C19 as stated: prelogin answers 200 with the stored kdf_iterations of a
\* registered email and with 600000 for an unknown one, and the answer for
\* a registered email is the answer an unknown email gets.
C19_AsStated ==
    resp.op = "prelogin"
    => /\ resp.status = 200
       /\ \A u \in get_user_by_email(resp.email) :
             resp.kdf_iterations = users[u].kdf_iterations
       /\ get_user_by_email(resp.email) = {} => resp.kdf_iterations = 600000
       /\ resp.kdf_iterations = 600000


C21_AsStated ==
    [][ \A data \in ResetPasswordInputs :
          ( /\ resp'.op = "reset_password"
            /\ reset_password_endpoint(data, TRUE) )
          => /\ users'[resp'.user_id].password_hash =
                    hash_password(data.master_password_hash)
             /\ users'[resp'.user_id].encrypted_private_key =
                    data.encrypted_private_key ]_vars

(***************************************************************************)
(* Properties of the migration over a batch (checked under SpecBatch)      *)
(***************************************************************************)
\* the key is listed as sensitive for the item's (category, subcategory)
listed_sensitive(item, key) ==
    /\ item.category \in DOMAIN ENCRYPTED_FIELDS
    /\ item.subcategory \in DOMAIN ENCRYPTED_FIELDS[item.category]
    /\ key \in ENCRYPTED_FIELDS[item.category][item.subcategory]

\* the organization row of the item exists / exists with a key that the
\* master key does not unwrap
org_row_exists(item) == item.org_id \in DOMAIN orgs
org_key_unresolved(item) ==
    /\ org_row_exists(item)
    /\ ~_decrypt_org_key(orgs[item.org_id].encryption_key_enc, SECRET_KEY).ok

\* the upgrade meets an item with sensitive keys whose key is unresolved
batch_fails ==
    \E i \in 1..Len(items) :
        /\ \E key \in {"license_number", "passport_number"} :
               listed_sensitive(items[i], key)
        /\ org_key_unresolved(items[i])

\* new is ciphertext that decrypts under the organization key of the item
\* to old
encrypted_from(item, old, new) ==
    /\ new # old
    /\ decrypt_field_try(new, _decrypt_org_key(orgs[item.org_id].encryption_key_enc,
                                               SECRET_KEY).val) = Ok(old)

\* the value is longer than 40 characters and decodes as base64
taken_for_ciphertext(value) == Len(value) > 40 /\ B64Decode(value).ok

\* C22 as stated: when the upgrade has completed, every non-empty value of a
\* sensitive field of an item whose organization row exists is ciphertext
\* that decrypts under the organization key to the value before the
\* migration, and every value of a field not listed as sensitive is unchanged.
C22_AsStated ==
    [][ \A n \in NonceIds :
          ( /\ ~batch_fails
            /\ upgrade(Draws(n)) )
          => \A i \in 1..Len(items) : \A j \in 1..Len(items[i].field_values) :
                LET old == items[i].field_values[j]
                    new == items'[i].field_values[j]
                IN IF /\ listed_sensitive(items[i], old.field_key)
                      /\ Truthy(old.field_value)
                      /\ org_row_exists(items[i])
                   THEN encrypted_from(items[i], old.field_value, new.field_value)
                   ELSE new = old ]_vars

\* C22: when the upgrade has completed, every non-empty value of a sensitive
\* field of an item whose organization row exists, unless it is longer than
\* 40 characters and decodes as base64, is ciphertext that decrypts under the
\* organization key to the value before the migration; every other value is
\* unchanged.
C22_EncryptsUnlessTakenForCiphertext ==
    [][ \A n \in NonceIds :
          ( /\ ~batch_fails
            /\ upgrade(Draws(n)) )
          => \A i \in 1..Len(items) : \A j \in 1..Len(items[i].field_values) :
                LET old == items[i].field_values[j]
                    new == items'[i].field_values[j]
                IN IF /\ listed_sensitive(items[i], old.field_key)
                      /\ Truthy(old.field_value)
                      /\ org_row_exists(items[i])
                      /\ ~taken_for_ciphertext(old.field_value)
                   THEN /\ encrypted_from(items[i], old.field_value, new.field_value)
                        /\ new = [old EXCEPT !.field_value = new.field_value]
                   ELSE new = old ]_vars

\* the upgrade has run: a sensitive field holds ciphertext of "AB" under the
\* organization key, next to a value of 44 digits left as it was and a field
\* that is not sensitive for the subcategory
C22_Witness ==
    /\ ~batch_fails
    /\ Len(items) = 2
    /\ items[1].subcategory = "drivers_license"
    /\ encrypted_from(items[1], <<65, 66>>, items[1].field_values[1].field_value)
    /\ items[1].field_values[2].field_value = LongPlainValue
    /\ org_row_exists(items[2])
    /\ items[2].category = "ids"
    /\ encrypted_from(items[2], <<65, 66>>, items[2].field_values[1].field_value)

\* C23 as stated: an upgrade that meets a record it cannot process skips it
\* and continues: every other record is encrypted as if the record were not
\* there, whatever happens on a later record.
C23_AsStated ==
    \A n \in NonceIds :
        \A i \in 1..Len(items) : \A j \in 1..Len(items[i].field_values) :
            LET old == items[i].field_values[j]
                new == upgrade_result(items, Draws(n))[i].field_values[j]
            IN IF /\ listed_sensitive(items[i], old.field_key)
                  /\ Truthy(old.field_value)
                  /\ org_row_exists(items[i])
                  /\ ~org_key_unresolved(items[i])
                  /\ ~taken_for_ciphertext(old.field_value)
               THEN encrypted_from(items[i], old.field_value, new.field_value)
               ELSE new = old

\* C23: the upgrade leaves an item unchanged when its organization row is
\* missing or its type has no sensitive key, and a value unchanged when it is
\* taken for ciphertext, and goes on with the other records; when it meets an
\* item with sensitive keys whose organization key cannot be decrypted, it
\* stops and no value of any record is changed.
C23_SkipsOrStops ==
    \A n \in NonceIds :
        IF batch_fails THEN upgrade_result(items, Draws(n)) = items
        ELSE \A i \in 1..Len(items) : \A j \in 1..Len(items[i].field_values) :
                LET old == items[i].field_values[j]
                    new == upgrade_result(items, Draws(n))[i].field_values[j]
                IN IF \/ ~org_row_exists(items[i])
                      \/ ~listed_sensitive(items[i], old.field_key)
                      \/ ~Truthy(old.field_value)
                      \/ taken_for_ciphertext(old.field_value)
                   THEN new = old
                   ELSE encrypted_from(items[i], old.field_value, new.field_value)

\* the first item was encrypted although the organization row of the second
\* one is missing
C23_Witness ==
    /\ Len(items) = 2
    /\ ~org_row_exists(items[2])
    /\ items[2].category = "ids"
    /\ items[2].field_values[1].field_value = <<65, 66>>
    /\ encrypted_from(items[1], <<65, 66>>, items[1].field_values[1].field_value)

(***************************************************************************)
(* Properties of the tokens (checked under SpecTokens)                     *)
(***************************************************************************)
\* the token string names an unused token of the purpose
unused_token(table, token_str, purpose) ==
    { t \in table : t.token = token_str /\ t.purpose = purpose /\ ~t.used }

\* the step marks exactly the unused token of the purpose as used
consumed(token_str, purpose) ==
    /\ Cardinality(unused_token(tokens, token_str, purpose)) = 1
    /\ unused_token(tokens', token_str, purpose) = {}
    /\ tokens' = { IF t \in unused_token(tokens, token_str, purpose)
                   THEN [t EXCEPT !.used = TRUE] ELSE t : t \in tokens }

\* C24: an accept-invite or reset-password request succeeds only with an
\* unused token of its purpose that has not expired, and marks that token as
\* used, so that a later validation finds nothing; a request with a used or
\* expired token is answered 400 and changes no user, membership, password
\* or token; a used token is never unused again.
C24_TokenAcceptedOnce ==
    [][ /\ \A data \in TokenAcceptInputs, fresh \in BOOLEAN :
             accept_invite_endpoint(data, fresh)
             => IF fresh /\ unused_token(tokens, data.token, "invite") # {}
                THEN \/ resp'.op = "accept_invite" /\ consumed(data.token, "invite")
                     \/ /\ resp' = [op |-> "error", status |-> 400]
                        /\ UNCHANGED <<users, memberships, persons, tokens>>
                ELSE /\ resp' = [op |-> "error", status |-> 400]
                     /\ UNCHANGED <<users, memberships, persons, tokens>>
        /\ \A data \in ResetPasswordInputs, fresh \in BOOLEAN :
             reset_password_endpoint(data, fresh)
             => IF fresh /\ unused_token(tokens, data.token, "password_reset") # {}
                THEN resp'.op = "reset_password"
                        /\ consumed(data.token, "password_reset")
                ELSE /\ resp' = [op |-> "error", status |-> 400]
                     /\ UNCHANGED <<users, memberships, persons, tokens>>
        /\ \A t \in tokens : t.used => t \in tokens' ]_vars

\* an invitation was accepted and a password was reset, both tokens are
\* used, and a further request was answered 400
C24_Witness ==
    /\ resp = [op |-> "error", status |-> 400]
    /\ \E t \in tokens : t.purpose = "invite" /\ t.used
    /\ \E t \in tokens : t.purpose = "password_reset" /\ t.used
    /\ \A t \in tokens : t.used
    /\ Len(users) = 2
    /\ \E u \in DOMAIN users : users[u].password_hash = hash_password(<<109, 50>>)
\* the person (invite) or user (password_reset) a token was issued for
token_owner(t) == IF t.purpose = "invite" THEN t.person_id ELSE t.user_id

\* at most one unused token per purpose and owner
one_unused_per_owner(table) ==
    \A t1, t2 \in table :
        ( /\ ~t1.used /\ ~t2.used
          /\ t1.purpose = t2.purpose
          /\ token_owner(t1) = token_owner(t2) ) => t1 = t2

\* C25: at every moment there is at most one unused invite token per person
\* and at most one unused password_reset token per user; a step that issues
\* a token marks the unused tokens of the same purpose and the same person
\* or user as used and leaves every other token as it was.
C25_OneUnusedToken ==
    [][ /\ one_unused_per_owner(tokens')
        /\ Cardinality(tokens') > Cardinality(tokens)
           => \E new \in tokens' \ tokens :
                /\ ~new.used
                /\ tokens' \ {new} =
                      { IF /\ ~t.used
                           /\ t.purpose = new.purpose
                           /\ token_owner(t) = token_owner(new)
                        THEN [t EXCEPT !.used = TRUE] ELSE t : t \in tokens } ]_vars

\* an invitation was issued again for the same person: the earlier token is
\* used, the later one is not, and the password_reset token of a user is
\* still unused
C25_Witness ==
    /\ \E t1, t2 \in tokens :
          /\ t1.purpose = "invite" /\ t2.purpose = "invite"
          /\ t1.person_id = t2.person_id
          /\ t1.used /\ ~t2.used
    /\ \E t \in tokens : t.purpose = "password_reset" /\ ~t.used

(***************************************************************************)
(* Frame of the member-key table (checked under Spec)                      *)
(***************************************************************************)
\* C26: a member-key row is removed or altered only by a store for its own
\* (org_id, user_id) pair; removing a member or changing a member's role
\* leaves the member-key table unchanged.
C26_MemberKeyFrame ==
    [][ /\ \A k \in member_keys :
             \/ k \in member_keys'
             \/ /\ resp'.op = "store_org_key"
                /\ resp'.org_id = k.org_id
                /\ resp'.user_id = k.user_id
        /\ resp'.op \in {"remove_member", "update_member_role"}
             => member_keys' = member_keys ]_vars

\* a member was removed from the organization and the member's key row is
\* still in the table
C26_Witness ==
    /\ resp.op = "remove_member"
    /\ get_user_membership(resp.user_id, resp.org_id) = {}
    /\ \E k \in member_keys : k.org_id = resp.org_id /\ k.user_id = resp.user_id

(***************************************************************************)
(* Rate limiting (checked under SpecRate)                                  *)
(***************************************************************************)
\* C27 as stated: at most requests_per_minute requests of one client reach
\* the application in any window of 60 seconds.
C27_AsStated ==
    \A ip \in ClientIps :
        \A i \in 1..Len(cr.passed[ip]) :
            Cardinality({ j \in 1..i : cr.passed[ip][j] > cr.passed[ip][i] - window })
                <= RequestsPerMinute

(***************************************************************************)
(* The owner of an organization (checked under SpecMembers)                *)
(***************************************************************************)
\* the memberships of the organization with the role owner
owners(org_id) == { m \in memberships : m.org_id = org_id /\ m.role = "owner" }

\* C28: every organization has exactly one membership with the role owner,
\* and it is the membership of the user who created the organization.
C28_OneOwner ==
    \A org_id \in DOMAIN orgs :
        owners(org_id) = { [org_id |-> org_id, user_id |-> orgs[org_id].created_by,
                            role |-> "owner"] }

\* an administrator who is not the owner asked to change the owner's role
\* or to remove the owner, and was answered 400
C28_Witness ==
    /\ resp = [op |-> "error", status |-> 400]
    /\ \E m \in memberships :
          /\ m.role = "admin"
          /\ Cardinality({ x \in memberships : x.org_id = m.org_id }) = 2
    /\ \E p \in persons : p.user_id # 0 /\ p.id > 1

(***************************************************************************)
(* Isolation between organizations (checked under SpecIsolation)           *)
(***************************************************************************)
\* the user is a member of the organization
is_member(user, org_id) == get_user_membership(user, org_id) # {}

\* the organization of the item that holds the attachment
file_org(file_id) ==
    { items[f.item_id].org_id : f \in { x \in files : x.id = file_id } }

\* the step serves the user with the item or the attachment
serves_item(user, item_id) ==
    \/ resp'.op = "get_item" /\ get_item(user, item_id)
    \/ resp'.op = "delete_item" /\ delete_item(user, item_id)
serves_file(user, file_id) ==
    \/ resp'.op = "download_file" /\ download_file(user, file_id)
    \/ resp'.op = "delete_file" /\ delete_file(user, file_id)

\* the step is a request of the user for the item or the attachment
asks_item(user, item_id) ==
    get_item(user, item_id) \/ delete_item(user, item_id)
asks_file(user, file_id) ==
    download_file(user, file_id) \/ delete_file(user, file_id)

\* the request was refused with the status and changed nothing
refused(status) ==
    /\ resp' = [op |-> "error", status |-> status]
    /\ UNCHANGED <<items, files, storage>>

\* C29 as stated: a user is served an item or an attachment only as a member
\* of its organization, and a request for a resource of an organization the
\* user is not a member of is answered 404 and changes nothing.
C29_AsStated ==
    [][ \A user \in Callers :
          /\ \A item_id \in DOMAIN items :
                /\ serves_item(user, item_id) => is_member(user, items[item_id].org_id)
                /\ ( /\ ~is_member(user, items[item_id].org_id)
                     /\ asks_item(user, item_id) ) => refused(404)
          /\ \A file_id \in FileIdInputs : \A org_id \in file_org(file_id) :
                /\ serves_file(user, file_id) => is_member(user, org_id)
                /\ ( /\ ~is_member(user, org_id)
                     /\ asks_file(user, file_id) ) => refused(404) ]_vars

\* C29: a user is served an item or an attachment only as a member of its
\* organization; a request for a resource of an organization the user is not
\* a member of changes nothing and is answered 404 when the user belongs to
\* some organization and 400 when the user belongs to none.
C29_Isolation ==
    [][ \A user \in Callers :
          /\ \A item_id \in DOMAIN items :
                /\ serves_item(user, item_id) => is_member(user, items[item_id].org_id)
                /\ ( /\ ~is_member(user, items[item_id].org_id)
                     /\ asks_item(user, item_id) )
                   => refused(IF get_user_orgs(user) = {} THEN 400 ELSE 404)
          /\ \A file_id \in FileIdInputs : \A org_id \in file_org(file_id) :
                /\ serves_file(user, file_id) => is_member(user, org_id)
                /\ ( /\ ~is_member(user, org_id)
                     /\ asks_file(user, file_id) )
                   => refused(IF get_user_orgs(user) = {} THEN 400 ELSE 404) ]_vars

\* a user of another organization asked for the item or its attachment and
\* was answered 404 while both are still there
C29_Witness ==
    /\ resp = [op |-> "error", status |-> 404]
    /\ Len(items) = 1 /\ ~items[1].is_archived
    /\ files # {}
    /\ \E user \in Callers : get_user_orgs(user) = {2}
    /\ items[1].org_id = 1

(***************************************************************************)
(* Concurrent stores of a member key (checked under SpecRace)              *)
(***************************************************************************)
\* both requests have left the handler
both_finished == \A r \in Requests : cr.pc[r] \in {"done", "failed"}

\* C30: under every interleaving of two store_org_key requests for the same
\* pair the table never holds two rows for the pair, and when both requests
\* have finished it holds one row for the pair, with the blob of one of the
\* two requests.
C30_OneRowPerPair ==
    /\ Cardinality(member_key_rows(cr.org_id, cr.user_id)) <= 1
    /\ both_finished
         => \E k \in member_keys :
               /\ member_key_rows(cr.org_id, cr.user_id) = {k}
               /\ k.encrypted_org_key \in { cr.blob[r] : r \in Requests }

\* both requests found no row, one inserted and the other was rejected by
\* the unique constraint: the row holds the blob of the first
C30_Witness ==
    /\ both_finished
    /\ \A r \in Requests : cr.existing[r] = {}
    /\ cr.blob[1] # cr.blob[2]
    /\ \E r \in Requests :
          /\ cr.pc[r] = "failed"
          /\ \A k \in member_key_rows(cr.org_id, cr.user_id) :
                k.encrypted_org_key # cr.blob[r]

====
